---- MODULE Spec2Model ----
(***************************************************************************)
(* Model of the per-market quoting/exit state machine of the liquidity     *)
(* mining market maker (src/quoting.py), together with the venue it talks  *)
(* to.                                                                     *)
(*                                                                         *)
(* Units.  Prices and midpoints are integers in units of 0.0001 (the       *)
(* precision _round_to_tick rounds to), so 0.40 is 4000.  Share balances   *)
(* are integers in units of 0.01 share, so 1.0 share is 100.  Fractions    *)
(* of config.py (SPREAD_PCT, REFRESH_THRESHOLD_PCT, STOP_LOSS_PCT) are in  *)
(* units of 0.001.  Time is in whole seconds.  Python's None is None.      *)
(***************************************************************************)
EXTENDS Integers, Sequences, FiniteSets, TLC

VARIABLES
    qm,        \* the QuotedMarket record of the tracked market
    venue,     \* the orders resting on the venue: records [id, kind, price]
    held,      \* the true YES / NO share balances held on the venue
    now,       \* time.time(), in seconds
    faults,    \* venue calls and reads gone wrong so far
    observed,  \* per side: a cycle was handed the inventory that is still held
    frame,     \* the call of place_quotes or process_market_cycle main() is
               \* inside: the statement it is at, its locals
    env,       \* what the venue, the clock and the configuration can show: the
               \* midpoints place_quotes reads (open) and those the polls read
               \* (mids), the clock readings (times), config.SHUTDOWN_TIME
    pc,        \* where main() is: placing its initial quotes ("start"), past
               \* them with no handler installed yet ("quoted"), in its poll
               \* loop ("poll") or gone ("exit", "exit1", "interrupted",
               \* "crashed")
    calc,      \* a call of the pricing engine: its arguments and its result
    \* main() over several markets
    markets,          \* the list discover_markets() returned
    quoted_markets,   \* the list of QuotedMarket records
    books,            \* per quoted market, its orders resting on the venue
    market_data,      \* what fetch_market_data returned in this poll, until
                      \* it is processed
    loop_i,           \* the index i of the for loop main() is in
    log,              \* this turn of the loop: which market was processed on
                      \* which data, and the cancel_all_quoted that ended it
    \* a call of fetch_market_data
    futures,          \* per submitted read: where it is and what it gave
    results,          \* the results dict
    collect,          \* the future the collecting loop waits for
    fetched           \* the list returned

botvars == <<qm, venue, held, now, faults, observed, frame>>
mainvars == <<markets, quoted_markets, books, market_data, loop_i, log>>
fetchvars == <<futures, results, collect, fetched>>

vars == <<botvars, env, pc, calc, mainvars, fetchvars>>

\* what the poll loop of one market leaves alone
unused_in_Spec == <<env, calc, markets, quoted_markets, books, loop_i, log,
                    fetchvars>>
\* what a call of the pricing engine leaves alone
unused_in_Pricing == <<botvars, env, pc, mainvars, fetchvars>>
\* what main() over several markets leaves alone
unused_in_Main == <<qm, held, observed, env, calc, fetchvars>>
\* what a call of fetch_market_data leaves alone
unused_in_Fetch == <<botvars, env, calc, mainvars>>

----------------------------------------------------------------------------
(* Bounds of the model *)

\* what goes wrong in one run: a venue call that raises (the order refused,
\* or taken and the answer lost) or answers without an order id or with an
\* empty one, a balance read that raises, a fill or a dump that falls
\* between a fetch and the return of the call that processes what it fetched
MaxFaults == 1

\* the clock readings explored, in seconds: the start, and a time past the
\* exit cooldown and at the end of the exit escalation
Times == {0, 1800}
\* midpoints the venue reports: one below MIN_QUOTABLE_MID, two quotable
\* ones 7.5% apart (beyond the refresh and the stop-loss thresholds)
MidSet == {1000, 4000, 4300}
\* midpoints a poll of the running bot reads: the opening midpoint is any of
\* MidSet, and by the time the loop polls the market has left 0.43 for good
PollMids == {1000, 4000}

----------------------------------------------------------------------------
(* Program constants *)

None == -1

\* float("nan"), which get_midpoint returns when the venue answers
\* {"mid": "NaN"}: float() parses it and the test mid <= 0 is False
NaN == -2

SPREAD_PCT == 600
REFRESH_THRESHOLD_PCT == 5
EXIT_ESCALATION_SECONDS == 1800
STOP_LOSS_PCT == 50
MIN_QUOTABLE_MID == 1500
INVENTORY_MIN_SHARES == 100
EXIT_COOLDOWN_SECONDS == 5

\* the Market record produced by discovery: tick "0.01", spread 0.03
Market == [tick_size |-> 100, max_incentive_spread |-> 300]

----------------------------------------------------------------------------
(* Pricing engine *)

Max(a, b) == IF a >= b THEN a ELSE b
Min(a, b) == IF a <= b THEN a ELSE b
Abs(a) == IF a >= 0 THEN a ELSE 0 - a

\* Python round(w + n / d) for integers w, n and d > 0, off a tie: the
\* nearest integer (an exact half goes to the even one)
RoundHalfEven(w, n, d) ==
    LET q == w + (n \div d)
        r == n % d
    IN IF 2 * r < d THEN q
       ELSE IF 2 * r > d THEN q + 1
       ELSE IF q % 2 = 0 THEN q ELSE q + 1

\* price / tick sits exactly between two integers for the price
\* whole + num/den
Tie(whole, num, den, tick) ==
    2 * (((whole % tick) * den + num) % (den * tick)) = den * tick

\* _round_to_tick of the price whole + num/den:
\* round(round(price / tick) * tick, 4).  The program divides in binary
\* floating point, so on an exact tie the quotient comes out a hair below or
\* above the half (0.595 / 0.01 is 59.49999999999999, 0.605 / 0.01 is
\* 60.50000000000001) and round goes down or up with it: the set of prices
\* the call can return, one price off a tie.
_round_to_tick(whole, num, den, tick) ==
    LET w == whole \div tick
        n == (whole % tick) * den + num
        d == den * tick
    IN IF Tie(whole, num, den, tick)
       THEN {(w + (n \div d)) * tick, (w + (n \div d) + 1) * tick}
       ELSE {RoundHalfEven(w, n, d) * tick}

_clamp(price, lo, hi) == Max(lo, Min(hi, price))

\* compute_quotes: the pairs it can return, one pair unless a rounding sits
\* on a tie.  On a NaN midpoint it returns none: round(nan / tick) in
\* _round_to_tick raises ValueError
compute_quotes(market, midpoint) ==
    LET hs   == market.max_incentive_spread * SPREAD_PCT   \* half_spread * 1000
        tick == market.tick_size
        pair(b, a) ==
            LET bid == _clamp(b, 10, 9990)
                ask == _clamp(a, 10, 9990)
            IN IF bid >= ask
               THEN [bid |-> _clamp(midpoint - tick, 10, 9990),
                     ask |-> _clamp(midpoint + tick, 10, 9990)]
               ELSE [bid |-> bid, ask |-> ask]
    IN IF midpoint = NaN THEN {}
       ELSE {pair(b, a) : b \in _round_to_tick(midpoint, 0 - hs, 1000, tick),
                          a \in _round_to_tick(midpoint, hs, 1000, tick)}

\* compute_exit_price: entry_mid > 0 and loss_pct >= STOP_LOSS_PCT.  The
\* program divides in binary floating point, so a loss of exactly the
\* threshold can come out on either side ((0.42 - 0.40) / 0.40 < 0.05 but
\* (0.50 - 0.475) / 0.50 >= 0.05): the set of answers the test can give.
\* Every comparison with NaN is False: no stop on a NaN midpoint, nor for a
\* position detected on one.
stop_loss(entry_mid, mid, side) ==
    LET loss == IF side = "YES" THEN entry_mid - mid ELSE mid - entry_mid
    IN IF entry_mid = NaN \/ mid = NaN \/ entry_mid <= 0 THEN {FALSE}
       ELSE IF loss * 1000 = STOP_LOSS_PCT * entry_mid THEN {TRUE, FALSE}
       ELSE {loss * 1000 > STOP_LOSS_PCT * entry_mid}

\* the exit price gone wrong: the escalation is not capped at its end
exit_price_uncapped(market, mid, inventory_since, entry_price, side, t_now, stop) ==
    LET elapsed == t_now - inventory_since
        hs   == market.max_incentive_spread * SPREAD_PCT
        tick == market.tick_size
        cost == IF side = "YES" THEN entry_price ELSE 10000 - entry_price
        den  == 1000 * EXIT_ESCALATION_SECONDS
        num  == hs * (EXIT_ESCALATION_SECONDS - elapsed)
    IN {_clamp(p, 100, 9900)
        : p \in IF stop
                THEN IF side = "YES"
                     THEN _round_to_tick(mid, 0, 1, tick)
                     ELSE _round_to_tick(10000 - mid, 0, 1, tick)
                ELSE _round_to_tick(cost, num, den, tick)}

\* compute_exit_price once the stop-loss test has come out as stop: the
\* prices it can return, one unless the rounding sits on a tie
exit_price(market, mid, inventory_since, entry_price, side, t_now, stop) ==
    LET elapsed == t_now - inventory_since
        e    == Min(elapsed, EXIT_ESCALATION_SECONDS)
        hs   == market.max_incentive_spread * SPREAD_PCT   \* half_spread * 1000
        tick == market.tick_size
        cost == IF side = "YES" THEN entry_price ELSE 10000 - entry_price
        den  == 1000 * EXIT_ESCALATION_SECONDS
        num  == hs * (EXIT_ESCALATION_SECONDS - e)   \* half_spread * (1 - t) * den
    IN {_clamp(p, 100, 9900)
        : p \in IF stop
                THEN IF side = "YES"
                     THEN _round_to_tick(mid, 0, 1, tick)
                     ELSE _round_to_tick(10000 - mid, 0, 1, tick)
                ELSE _round_to_tick(cost, num, den, tick)}

\* compute_exit_price at time t_now: the prices it can return, one unless
\* the loss sits exactly at the stop-loss threshold or a rounding on a tie
compute_exit_price(market, mid, inventory_since, entry_mid, entry_price, side, t_now) ==
    UNION {exit_price(market, mid, inventory_since, entry_price, side, t_now, stop)
           : stop \in stop_loss(entry_mid, mid, side)}

\* should_refresh: drift_pct > thr.  The program computes in binary floating
\* point, so a drift of exactly the threshold can come out on either side:
\* the set of answers the comparison can give.  The drift from or to NaN is
\* NaN, and NaN > thr is False.
should_refresh(quoted, mid) ==
    LET drift == Abs(mid - quoted.mid_at_placement) * 1000
        thr   == REFRESH_THRESHOLD_PCT * quoted.mid_at_placement
    IN IF mid = NaN \/ quoted.mid_at_placement = NaN THEN {FALSE}
       ELSE IF drift = thr THEN {TRUE, FALSE} ELSE {drift > thr}

\* abs(new_exit - exit_price_placed) >= tick, again in floating point: two
\* prices exactly one tick apart can differ by a hair less than the tick
\* (0.41 - 0.40 < 0.01) or a hair more (0.39 - 0.38 > 0.01).
price_changed(new_exit, placed, tick) ==
    IF Abs(new_exit - placed) = tick THEN {TRUE, FALSE}
    ELSE {Abs(new_exit - placed) >= tick}

----------------------------------------------------------------------------
(* The QuotedMarket record and the venue's order primitives *)

\* QuotedMarket(market=...) with the dataclass defaults
QuotedMarket ==
    [bid_order_id |-> None, ask_order_id |-> None,
     yes_exit_order_id |-> None, no_exit_order_id |-> None,
     mid_at_placement |-> 0, inventory_since |-> None, entry_mid |-> 0,
     entry_bid_price |-> 0, entry_ask_price |-> 0,
     exit_price_placed |-> 0, exit_cooldown_until |-> 0]

IdFields ==
    {"bid_order_id", "ask_order_id", "yes_exit_order_id", "no_exit_order_id"}

\* the empty string, as the order id of an answer that carries an empty one
\* (resp.get("orderID") or resp.get("id") is '' when "id" is '')
Empty == 0

\* "if oid": an id that is neither None nor the empty string.  The program
\* tests some ids this way and others with "is None", which the empty
\* string does not pass
Truthy(oid) == oid # None /\ oid # Empty

\* [oid for oid in (...) if oid], as a set
Recorded(ids) == {i \in ids : Truthy(i)}

QuoteIds(q) == Recorded({q.bid_order_id, q.ask_order_id})
ExitIds(q) == Recorded({q.yes_exit_order_id, q.no_exit_order_id})
AllIds(q) ==
    Recorded({q.bid_order_id, q.ask_order_id,
              q.yes_exit_order_id, q.no_exit_order_id})

Range(s) == {s[i] : i \in 1..Len(s)}

\* what fetch_market_data hands over when nothing is known
NoData == [yes_bal |-> None, no_bal |-> None, mid |-> None]

\* the locals of a running call that outlive one of its venue calls:
\* needs_refresh, needs_bid, needs_ask, bid_price and ask_price of
\* process_market_cycle and place_quotes, all_ids of cancel_all_quoted
NoPlan ==
    [needs_refresh |-> FALSE, needs_bid |-> FALSE, needs_ask |-> FALSE,
     bid |-> 0, ask |-> 0, all_ids |-> {}]

\* A running call of place_quotes, process_market_cycle or cancel_all_quoted:
\* the function, the statement it is at, the record it mutates, the venue's
\* book, the arguments it was handed, its locals, the assignments that follow
\* the venue call that has just come back (todo), the branch it took (path),
\* the venue calls issued so far, how many more of its venue calls may go
\* wrong, and what time.time() reads.
Ctx(fn, at, q, book, in, budget, t_now) ==
    [fn |-> fn, at |-> at, qm |-> q, venue |-> book, in |-> in,
     plan |-> NoPlan, todo |-> <<>>, path |-> "", calls |-> <<>>,
     budget |-> budget, now |-> t_now]

\* the running call as a signal handler or an exception finds it
Snap(c) == [qm |-> c.qm, venue |-> c.venue, budget |-> c.budget]

\* A venue call blocks while the clock runs: what time.time() can read once
\* a call made at t has come back
Later(t) == {t} \cup {u \in env.times : u > t}

\* one venue call as the cycle's history keeps it: what was asked, how it
\* went, and the time it came back at
Call(op, site, ids, ok, err, price) ==
    [op |-> op, site |-> site, ids |-> ids, ok |-> ok, err |-> err,
     price |-> price, at |-> 0]

\* the venue call k has come back and left the running call as c, at one of
\* the times it can take: note the call and the time.  (cancel_all_quoted
\* reads no clock and main() ends after it: the time its venue calls take
\* is left out.)
Back(c, k) ==
    {[c EXCEPT !.now = t, !.calls = Append(@, [k EXCEPT !.at = t])]
     : t \in IF c.fn = "cancel_all_quoted" THEN {c.now} ELSE Later(c.now)}

Kinds == {"bid", "ask", "yes_exit", "no_exit"}

\* Order ids are opaque to the program.  The venue is taken to number the
\* orders of each kind apart: bids from 11, asks from 21, YES exits from 31,
\* NO exits from 41.
IdBase(kind) ==
    CASE kind = "bid" -> 10 [] kind = "ask" -> 20
      [] kind = "yes_exit" -> 30 [] kind = "no_exit" -> 40

\* The book with the orders whose id is not among ids made anonymous: only
\* the kind of such an order matters (id 100 + IdBase + k for the k-th of a
\* kind, price 0).
Anonymous(book, ids) ==
    LET lost(kind) == {o \in book : o.kind = kind /\ o.id \notin ids}
    IN IF \A o \in book : o.id \in ids THEN book
       ELSE {o \in book : o.id \in ids}
            \cup UNION {{[id |-> 100 + IdBase(kind) + k, kind |-> kind, price |-> 0]
                    : k \in 1..Cardinality(lost(kind))} : kind \in Kinds}

\* The book with the orders the program no longer records made anonymous:
\* it can never name such an order again.
Normalize(book, q) == Anonymous(book, AllIds(q))

\* The order id the venue hands out next: the least id of the kind that is
\* not recorded.
FreshId(c, kind) ==
    LET free == {i \in (IdBase(kind) + 1)..(IdBase(kind) + 5) : i \notin AllIds(c.qm)}
    IN CHOOSE i \in free : \A j \in free : i <= j

\* client.cancel_orders(ids) inside try/except: it returns (the orders no
\* longer rest) or raises (the book is as it was).
cancel_orders(c, site, ids) ==
    {[ok |-> TRUE, c |-> x]
     : x \in Back([c EXCEPT !.venue = {o \in @ : o.id \notin ids}],
                  Call("cancel", site, ids, TRUE, "", 0))}
    \cup
    {[ok |-> FALSE, c |-> x]
     : x \in IF c.budget > 0
             THEN Back([c EXCEPT !.budget = @ - 1],
                       Call("cancel", site, ids, FALSE, "error", 0))
             ELSE {}}

\* The ways a placement can raise: a SELL of held shares can also fail with
\* the venue's "not enough balance / allowance" error.
PlaceErrors(kind) ==
    IF kind \in {"yes_exit", "no_exit"} THEN {"error", "balance"} ELSE {"error"}

\* client.create_order + client.post_order inside try/except, then
\* resp.get("orderID") or resp.get("id").  The call returns the id of the
\* order now resting (accepted); or it raises with nothing resting
\* (rejected); or it raises though the venue took the order: the answer
\* never arrived, or it is not a dict and resp.get raises (lost); or it
\* returns an answer that carries no id (no_id) or an empty one (empty_id),
\* the order resting on the venue or not.  ok tells whether the statements
\* that follow the call in the try block run, and id is what they store.
\* The entry in calls has ok only for the first of these.
post_order(c, kind, price) ==
    LET id == FreshId(c, kind)
        order == [id |-> id, kind |-> kind, price |-> price]
        accepted ==
            {[ok |-> TRUE, id |-> id, err |-> "", c |-> x]
             : x \in Back([c EXCEPT !.venue = Normalize(@, c.qm) \cup {order}],
                          Call("place", kind, {id}, TRUE, "", price))}
        rejected(e) ==
            {[ok |-> FALSE, id |-> None, err |-> e, c |-> x]
             : x \in Back([c EXCEPT !.budget = @ - 1],
                          Call("place", kind, {}, FALSE, e, price))}
        lost ==
            {[ok |-> FALSE, id |-> None, err |-> "lost", c |-> x]
             : x \in Back([c EXCEPT !.budget = @ - 1,
                                    !.venue = Normalize(@ \cup {order}, c.qm)],
                          Call("place", kind, {}, FALSE, "lost", price))}
        answered(oid, e, rests) ==
            {[ok |-> TRUE, id |-> oid, err |-> e, c |-> x]
             : x \in Back([c EXCEPT
                              !.budget = @ - 1,
                              !.venue = IF rests
                                        THEN Normalize(@ \cup {order}, c.qm)
                                        ELSE @],
                          Call("place", kind, {}, FALSE, e, price))}
    IN accepted
       \cup (IF c.budget > 0
             THEN UNION {rejected(e) : e \in PlaceErrors(kind)}
                  \cup lost
                  \cup UNION {answered(None, "no_id", rests)
                              \cup answered(Empty, "empty_id", rests)
                              : rests \in BOOLEAN}
             ELSE {})

\* the assignment qm.field = value
Set(field, value) == [field |-> field, value |-> value]

\* the running call c goes on at statement at, the assignments of todo first
Then(c, at, todo) == [c EXCEPT !.at = at, !.todo = todo]

\* the running call c raises out of the function: an exception no try block
\* of the function is around
Raise(c) == [c EXCEPT !.at = "raise", !.todo = <<>>, !.path = "raised"]

\* qm.bid_order_id = None ... qm.no_exit_order_id = None
ClearIds ==
    <<Set("bid_order_id", None), Set("ask_order_id", None),
      Set("yes_exit_order_id", None), Set("no_exit_order_id", None)>>

----------------------------------------------------------------------------
(* Order manager.  Every operator below is a stretch of a function from one *)
(* venue call to the next: it maps the running call to the set of ways it   *)
(* can go on, one per outcome of the venue call, each with the assignments  *)
(* that follow the call and the statement the function is at after them.    *)

\* cancel_quoted gone wrong: the bulk cancel names the quote orders only
cancel_quoted_quotes_only(c) ==
    LET order_ids == QuoteIds(c.qm)
    IN IF order_ids = {} THEN {Then(c, "return", <<>>)}
       ELSE {Then(r.c, "return", IF r.ok THEN ClearIds ELSE <<>>)
             : r \in cancel_orders(c, "park", order_ids)}

\* cancel_quoted: one bulk cancel of every recorded id; the four ids are
\* cleared only when it returns.
cancel_quoted(c) ==
    LET order_ids == AllIds(c.qm)
    IN IF order_ids = {} THEN {Then(c, "return", <<>>)}
       ELSE {Then(r.c, "return", IF r.ok THEN ClearIds ELSE <<>>)
             : r \in cancel_orders(c, "park", order_ids)}

\* place_quotes from its first statement to the record it builds: the
\* midpoint read is c.in.mid; unknown or below MIN_QUOTABLE_MID, None is
\* returned; on NaN (not below anything) compute_quotes raises
quote_open(c) ==
    LET mid == c.in.mid
    IN IF mid = NaN THEN {Raise(c)}
       ELSE IF mid = None \/ mid < MIN_QUOTABLE_MID
       THEN {[Then(c, "return", <<>>) EXCEPT !.path = "none"]}
       ELSE {[Then(c, "quote_bid", <<>>) EXCEPT
                 !.path = "quoted",
                 !.plan.bid = q.bid, !.plan.ask = q.ask,
                 !.qm = [QuotedMarket EXCEPT !.mid_at_placement = mid,
                                             !.entry_bid_price = q.bid,
                                             !.entry_ask_price = q.ask]]
             : q \in compute_quotes(Market, mid)}

\* place_quotes: Place BUY order
quote_bid(c) ==
    {Then(r.c, "quote_ask",
          IF r.ok THEN <<Set("bid_order_id", r.id)>> ELSE <<>>)
     : r \in post_order(c, "bid", c.plan.bid)}

\* place_quotes: Place ask side
quote_ask(c) ==
    UNION {{Then(r.c, "return",
                 IF r.ok THEN <<Set("ask_order_id", r.id)>> ELSE <<>>)
            : r \in post_order(c, "ask", no_price)}
           : no_price \in _round_to_tick(10000 - c.plan.ask, 0, 1,
                                         Market.tick_size)}

\* client.cancel_all() inside try/except: it returns (nothing of the account
\* rests any more) or raises (the book is as it was).
cancel_all(c) ==
    Back([c EXCEPT !.venue = {}],
         Call("cancel_all", "shutdown", {}, TRUE, "", 0))
    \cup
    (IF c.budget > 0
     THEN Back([c EXCEPT !.budget = @ - 1],
               Call("cancel_all", "shutdown", {}, FALSE, "error", 0))
     ELSE {})

\* the record once cancel_all_quoted has made the first j of its four
\* assignments qm.bid_order_id = None ... qm.no_exit_order_id = None
ClearedTo(q, j) ==
    CASE j = 0 -> q
      [] j = 1 -> [q EXCEPT !.bid_order_id = None]
      [] j = 2 -> [q EXCEPT !.bid_order_id = None, !.ask_order_id = None]
      [] j = 3 -> [q EXCEPT !.bid_order_id = None, !.ask_order_id = None,
                            !.yes_exit_order_id = None]
      [] j = 4 -> [q EXCEPT !.bid_order_id = None, !.ask_order_id = None,
                            !.yes_exit_order_id = None,
                            !.no_exit_order_id = None]

\* cancel_all_quoted for the tracked market: the recorded ids are collected
\* and the four ids cleared, then the ids collected are cancelled in one bulk
\* cancel; cancel_all is the fallback when the bulk cancel raises.
cancel_all_quoted(c) ==
    LET all_ids == AllIds(c.qm)
        c1 == [c EXCEPT !.qm = ClearedTo(@, 4)]
    IN IF all_ids = {} THEN {c1}
       ELSE UNION {IF r.ok THEN {r.c} ELSE cancel_all(r.c)
                   : r \in cancel_orders(c1, "shutdown", all_ids)}

\* cancel_all_quoted cut short: a further SIGINT arrives while it runs, the
\* handler calls cancel_all_quoted again on the record as it is by then, and
\* sys.exit(0) ends the call that was cut short (SystemExit passes the
\* except Exception around its venue calls).  The signal can fall after any
\* of the four assignments: the ids cleared by then are collected no more
\* and their orders are never cancelled (after the fourth, or while the bulk
\* cancel is on its way to the venue, none is); or after the bulk cancel has
\* raised: the second call finds every id cleared, and cancel_all is never
\* called.
cancel_all_quoted_cut_short(c) ==
    LET again == {[c EXCEPT !.qm = ClearedTo(@, j)] : j \in 1..4}
        raised(x) ==
            IF AllIds(x.qm) = {} \/ x.budget = 0 THEN {}
            ELSE {r.c : r \in {y \in cancel_orders(
                                         [x EXCEPT !.qm = ClearedTo(@, 4)],
                                         "shutdown", AllIds(x.qm)) : ~y.ok}}
    IN UNION {cancel_all_quoted(x) \cup raised(x) : x \in again \ {c}}
       \cup raised(c)

----------------------------------------------------------------------------
(* process_market_cycle, stretch by stretch *)

has_shares(bal) == bal # None /\ bal >= INVENTORY_MIN_SHARES

\* "If balance fetch failed but we have active exit orders, don't change state"
balance_guard(q, yes_bal, no_bal) ==
    /\ ~(has_shares(yes_bal) \/ has_shares(no_bal))
    /\ (yes_bal = None \/ no_bal = None)
    /\ (Truthy(q.yes_exit_order_id) \/ Truthy(q.no_exit_order_id))

\* the cycle gone wrong: an unknown midpoint is not told from a low one
early_returns_no_mid_check(c) ==
    IF balance_guard(c.qm, c.in.yes_bal, c.in.no_bal)
    THEN {[Then(c, "return", <<>>) EXCEPT !.path = "balance_noop"]}
    ELSE IF c.in.mid # NaN /\ c.in.mid < MIN_QUOTABLE_MID
    THEN {[Then(c, "park", <<>>) EXCEPT !.path = "park"]}
    ELSE {[Then(c, "track", <<>>) EXCEPT !.path = "full"]}

\* process_market_cycle up to the inventory tracking: the balance guard, the
\* unknown midpoint, parking (NaN < MIN_QUOTABLE_MID is False)
early_returns(c) ==
    IF balance_guard(c.qm, c.in.yes_bal, c.in.no_bal)
    THEN {[Then(c, "return", <<>>) EXCEPT !.path = "balance_noop"]}
    ELSE IF c.in.mid = None
    THEN {[Then(c, "return", <<>>) EXCEPT !.path = "no_mid"]}
    ELSE IF c.in.mid # NaN /\ c.in.mid < MIN_QUOTABLE_MID
    THEN {[Then(c, "park", <<>>) EXCEPT !.path = "park"]}
    ELSE {[Then(c, "track", <<>>) EXCEPT !.path = "full"]}

\* inventory tracking gone wrong: inventory_since survives the position
track_inventory_keeps_clock(c) ==
    LET has_inventory == has_shares(c.in.yes_bal) \/ has_shares(c.in.no_bal)
    IN IF has_inventory /\ c.qm.inventory_since = None
       THEN {Then(c, "unwanted_bid", <<Set("inventory_since", c.now),
                                       Set("entry_mid", c.in.mid)>>)}
       ELSE IF ~has_inventory
       THEN {Then(c, "stale_exits", <<Set("entry_mid", 0),
                                      Set("exit_cooldown_until", 0)>>)}
       ELSE {Then(c, "unwanted_bid", <<>>)}

\* Track inventory entry state
track_inventory(c) ==
    LET has_inventory == has_shares(c.in.yes_bal) \/ has_shares(c.in.no_bal)
    IN IF has_inventory /\ c.qm.inventory_since = None
       THEN {Then(c, "unwanted_bid", <<Set("inventory_since", c.now),
                                       Set("entry_mid", c.in.mid)>>)}
       ELSE IF ~has_inventory
       THEN {Then(c, "stale_exits", <<Set("inventory_since", None),
                                      Set("entry_mid", 0),
                                      Set("exit_cooldown_until", 0)>>)}
       ELSE {Then(c, "unwanted_bid", <<>>)}

\* Cancel stale exit orders: the two ids are cleared whether the cancel
\* returns or raises
cancel_stale_exits(c) ==
    LET exit_ids == ExitIds(c.qm)
    IN IF exit_ids # {}
       THEN {Then(r.c, "unwanted_bid", <<Set("yes_exit_order_id", None),
                                         Set("no_exit_order_id", None)>>)
             : r \in cancel_orders(c, "stale_exits", exit_ids)}
       ELSE {Then(c, "unwanted_bid", <<>>)}

\* Cancel unwanted sides
cancel_unwanted_bid(c) ==
    IF has_shares(c.in.yes_bal) /\ Truthy(c.qm.bid_order_id)
    THEN {Then(r.c, "unwanted_ask",
               IF r.ok THEN <<Set("bid_order_id", None)>> ELSE <<>>)
          : r \in cancel_orders(c, "unwanted_bid", {c.qm.bid_order_id})}
    ELSE {Then(c, "unwanted_ask", <<>>)}

cancel_unwanted_ask(c) ==
    IF has_shares(c.in.no_bal) /\ Truthy(c.qm.ask_order_id)
    THEN {Then(r.c, "quotes",
               IF r.ok THEN <<Set("ask_order_id", None)>> ELSE <<>>)
          : r \in cancel_orders(c, "unwanted_ask", {c.qm.ask_order_id})}
    ELSE {Then(c, "quotes", <<>>)}

\* Check drift on active quotes, determine which sides need (re)placement,
\* compute the quotes.  On a NaN midpoint no refresh is needed (the drift
\* test is False), so nothing is cancelled before compute_quotes is called,
\* and that call raises out of process_market_cycle when a side needs
\* placing.
manage_quotes(c) ==
    LET want_bid == ~has_shares(c.in.yes_bal)
        want_ask == ~has_shares(c.in.no_bal)
        has_active_quotes == \/ (want_bid /\ Truthy(c.qm.bid_order_id))
                             \/ (want_ask /\ Truthy(c.qm.ask_order_id))
        needs_bid(needs_refresh) ==
            want_bid /\ (c.qm.bid_order_id = None \/ needs_refresh)
        needs_ask(needs_refresh) ==
            want_ask /\ (c.qm.ask_order_id = None \/ needs_refresh)
        manage(needs_refresh, q) ==
            IF needs_bid(needs_refresh) \/ needs_ask(needs_refresh)
            THEN [Then(c, "refresh", <<>>) EXCEPT
                     !.plan.needs_refresh = needs_refresh,
                     !.plan.needs_bid = needs_bid(needs_refresh),
                     !.plan.needs_ask = needs_ask(needs_refresh),
                     !.plan.bid = q.bid, !.plan.ask = q.ask]
            ELSE Then(c, "exits", <<>>)
    IN IF c.in.mid = NaN
       THEN {IF needs_bid(FALSE) \/ needs_ask(FALSE)
             THEN Raise(c) ELSE Then(c, "exits", <<>>)}
       ELSE {manage(drifted, q)
             : drifted \in IF has_active_quotes
                           THEN should_refresh(c.qm, c.in.mid) ELSE {FALSE},
               q \in compute_quotes(Market, c.in.mid)}

\* Cancel existing quotes before re-placing (for refresh)
cancel_for_refresh(c) ==
    LET cancel_ids == QuoteIds(c.qm)
    IN IF c.plan.needs_refresh /\ cancel_ids # {}
       THEN {Then(r.c, "bid",
                  IF r.ok THEN <<Set("bid_order_id", None),
                                 Set("ask_order_id", None)>>
                  ELSE <<>>)
             : r \in cancel_orders(c, "refresh", cancel_ids)}
       ELSE {Then(c, "bid", <<>>)}

\* bid placement gone wrong: placed without looking at the recorded bid
place_bid_unguarded(c) ==
    IF c.plan.needs_bid
    THEN {Then(r.c, "ask",
               IF r.ok THEN <<Set("bid_order_id", r.id),
                              Set("entry_bid_price", c.plan.bid),
                              Set("mid_at_placement", c.in.mid)>>
               ELSE <<>>)
          : r \in post_order(c, "bid", c.plan.bid)}
    ELSE {Then(c, "ask", <<>>)}

place_bid(c) ==
    IF c.plan.needs_bid /\ c.qm.bid_order_id = None
    THEN {Then(r.c, "ask",
               IF r.ok THEN <<Set("bid_order_id", r.id),
                              Set("entry_bid_price", c.plan.bid),
                              Set("mid_at_placement", c.in.mid)>>
               ELSE <<>>)
          : r \in post_order(c, "bid", c.plan.bid)}
    ELSE {Then(c, "ask", <<>>)}

place_ask(c) ==
    IF c.plan.needs_ask /\ c.qm.ask_order_id = None
    THEN UNION {{Then(r.c, "exits",
                      IF r.ok THEN <<Set("ask_order_id", r.id),
                                     Set("entry_ask_price", c.plan.ask),
                                     Set("mid_at_placement", c.in.mid)>>
                      ELSE <<>>)
                 : r \in post_order(c, "ask", no_price)}
                : no_price \in _round_to_tick(10000 - c.plan.ask, 0, 1,
                                              Market.tick_size)}
    ELSE {Then(c, "exits", <<>>)}

\* exit management gone wrong: the cooldown is not looked at
exit_management_no_cooldown(c) ==
    IF has_shares(c.in.yes_bal) \/ has_shares(c.in.no_bal)
    THEN {Then(c, "exit_refresh", <<>>)}
    ELSE {Then(c, "return", <<>>)}

\* Exit management, run when inventory is held and the cooldown is over
exit_management(c) ==
    IF (has_shares(c.in.yes_bal) \/ has_shares(c.in.no_bal))
       /\ c.now >= c.qm.exit_cooldown_until
    THEN {Then(c, "exit_refresh", <<>>)}
    ELSE {Then(c, "return", <<>>)}

\* _manage_exits: check if existing exit orders need price refresh
refresh_exits(c) ==
    IF Truthy(c.qm.yes_exit_order_id) \/ Truthy(c.qm.no_exit_order_id)
    THEN LET new_exits ==
                 IF Truthy(c.qm.yes_exit_order_id)
                 THEN compute_exit_price(Market, c.in.mid, c.qm.inventory_since,
                          c.qm.entry_mid, c.qm.entry_bid_price, "YES", c.now)
                 ELSE compute_exit_price(Market, c.in.mid, c.qm.inventory_since,
                          c.qm.entry_mid, c.qm.entry_ask_price, "NO", c.now)
             refresh(changed) ==
                 IF changed
                 THEN {Then(r.c, "yes_exit",
                            IF r.ok THEN <<Set("yes_exit_order_id", None),
                                           Set("no_exit_order_id", None)>>
                            ELSE <<>>)
                       : r \in cancel_orders(c, "exit_refresh", ExitIds(c.qm))}
                 ELSE {Then(c, "yes_exit", <<>>)}
         IN UNION {refresh(changed)
                   : changed \in UNION {price_changed(new_exit,
                                                      c.qm.exit_price_placed,
                                                      Market.tick_size)
                                        : new_exit \in new_exits}}
    ELSE {Then(c, "yes_exit", <<>>)}

\* _manage_exits: place YES exit
place_yes_exit(c) ==
    IF has_shares(c.in.yes_bal) /\ c.qm.yes_exit_order_id = None
    THEN LET place(price) ==
                 {Then(r.c, "no_exit",
                       IF r.ok
                       THEN <<Set("yes_exit_order_id", r.id),
                              Set("exit_price_placed", price)>>
                       ELSE IF r.err = "balance"
                       THEN <<Set("exit_cooldown_until",
                                  r.c.now + EXIT_COOLDOWN_SECONDS)>>
                       ELSE <<>>)
                  : r \in post_order(c, "yes_exit", price)}
         IN UNION {place(price)
                   : price \in compute_exit_price(Market, c.in.mid,
                                    c.qm.inventory_since, c.qm.entry_mid,
                                    c.qm.entry_bid_price, "YES", c.now)}
    ELSE {Then(c, "no_exit", <<>>)}

\* _manage_exits: place NO exit
place_no_exit(c) ==
    IF has_shares(c.in.no_bal) /\ c.qm.no_exit_order_id = None
    THEN LET place(price) ==
                 {Then(r.c, "return",
                       IF r.ok
                       THEN <<Set("no_exit_order_id", r.id),
                              Set("exit_price_placed", price)>>
                       ELSE IF r.err = "balance"
                       THEN <<Set("exit_cooldown_until",
                                  r.c.now + EXIT_COOLDOWN_SECONDS)>>
                       ELSE <<>>)
                  : r \in post_order(c, "no_exit", price)}
         IN UNION {place(price)
                   : price \in compute_exit_price(Market, c.in.mid,
                                    c.qm.inventory_since, c.qm.entry_mid,
                                    c.qm.entry_ask_price, "NO", c.now)}
    ELSE {Then(c, "return", <<>>)}

----------------------------------------------------------------------------
(* Running a call *)

\* the next assignment of todo is made
Assign(c) ==
    LET a == Head(c.todo)
    IN [c EXCEPT !.qm[a.field] = a.value, !.todo = Tail(@)]

\* the stretch of the function the running call is at
Stretch(c) ==
    CASE c.at = "quote_open" -> quote_open(c)
      [] c.at = "quote_bid" -> quote_bid(c)
      [] c.at = "quote_ask" -> quote_ask(c)
      [] c.at = "enter" -> early_returns(c)
      [] c.at = "park" -> cancel_quoted(c)
      [] c.at = "track" -> track_inventory(c)
      [] c.at = "stale_exits" -> cancel_stale_exits(c)
      [] c.at = "unwanted_bid" -> cancel_unwanted_bid(c)
      [] c.at = "unwanted_ask" -> cancel_unwanted_ask(c)
      [] c.at = "quotes" -> manage_quotes(c)
      [] c.at = "refresh" -> cancel_for_refresh(c)
      [] c.at = "bid" -> place_bid(c)
      [] c.at = "ask" -> place_ask(c)
      [] c.at = "exits" -> exit_management(c)
      [] c.at = "exit_refresh" -> refresh_exits(c)
      [] c.at = "yes_exit" -> place_yes_exit(c)
      [] c.at = "no_exit" -> place_no_exit(c)

\* the call has run to its return statement, or has raised
Done(c) == c.at \in {"return", "raise"} /\ c.todo = <<>>

\* The running call moves on: the assignments that follow the venue call
\* that came back, one at a time, then the next stretch
Move(c) == IF c.todo # <<>> THEN {Assign(c)} ELSE Stretch(c)

\* x is the running call c after a venue call has come back
Called(c, x) == Len(x.calls) # Len(c.calls)

\* The running call up to the return of its next venue call, the assignments
\* that follow that call still to be made, or to its own return
RECURSIVE Advance(_)
Advance(c) ==
    UNION {IF Done(x) \/ Called(c, x) THEN {x} ELSE Advance(x) : x \in Move(c)}

\* the stretches that issue no venue call.  (Every other stretch makes no
\* assignment unless it has called the venue.)
Quiet == {"quote_open", "enter", "track", "quotes", "exits"}

\* What the record and the book are between the statements of the running
\* call from where it is up to its next venue call: as it is, and after each
\* of the assignments it makes on the way
RECURSIVE Points(_)
Points(c) ==
    {Snap(c)}
    \cup (IF c.todo # <<>> THEN Points(Assign(c))
          ELSE IF c.at \in Quiet THEN UNION {Points(x) : x \in Stretch(c)}
          ELSE {})

\* The running call to its return: the ways it can end, one per outcome of
\* the venue calls it issues, of which at most its budget fail
RECURSIVE ToReturn(_)
ToReturn(c) == IF Done(c) THEN {c} ELSE UNION {ToReturn(x) : x \in Move(c)}

\* What a call returns: the record, the venue's book, the calls it issued
Returned(c) ==
    [qm |-> c.qm, venue |-> Normalize(c.venue, c.qm), calls |-> c.calls,
     path |-> c.path, budget |-> c.budget, now |-> c.now]

\* process_market_cycle(client, qm, yes_bal, no_bal, mid) at time t_now with
\* the venue's book as it is: the set of results, one per outcome of the
\* venue calls it issues, of which at most budget fail
process_market_cycle(q, book, yes_bal, no_bal, mid, t_now, budget) ==
    {Returned(c)
     : c \in ToReturn(Ctx("process_market_cycle", "enter", q, book,
                        [yes_bal |-> yes_bal, no_bal |-> no_bal, mid |-> mid],
                        budget, t_now))}

----------------------------------------------------------------------------
(* The state machine *)

\* main() over several markets is not under study
MainIdle ==
    /\ markets = <<>>
    /\ quoted_markets = <<>>
    /\ books = <<>>
    /\ market_data = <<>>
    /\ loop_i = 0
    /\ log = <<>>

\* no call of fetch_market_data is under study
FetchIdle ==
    /\ futures = <<>>
    /\ results = <<>>
    /\ collect = 0
    /\ fetched = <<>>

\* no call of the pricing engine is under study
NoCall ==
    [fn |-> "none", market |-> Market, mid |-> 0, inventory_since |-> 0,
     entry_mid |-> 0, entry_price |-> 0, side |-> "YES", t_now |-> 0,
     done |-> FALSE, bid |-> 0, ask |-> 0, price |-> 0]

\* main() is inside none of place_quotes and process_market_cycle
NoFrame ==
    [fn |-> "none", at |-> "return", todo |-> <<>>, plan |-> NoPlan,
     quoted |-> QuotedMarket]

\* what main() keeps of the running call c while the venue, the dumper or a
\* signal acts: where the call is, its locals, and the record place_quotes
\* is building (process_market_cycle mutates the tracked record itself)
Frame(c) ==
    [fn |-> c.fn, at |-> c.at, todo |-> c.todo, plan |-> c.plan,
     quoted |-> IF c.fn = "place_quotes" THEN c.qm ELSE QuotedMarket]

\* the order ids the running code can still name: the recorded ones and
\* those about to be assigned
Known(q, todo) ==
    AllIds(q) \cup Recorded({todo[i].value
                             : i \in {j \in 1..Len(todo)
                                      : todo[j].field \in IdFields}})

\* What a run is fed: the midpoints get_midpoint can return to place_quotes
\* (open) and to the polls (mids), the readings of the clock (times), and
\* config.SHUTDOWN_TIME as the reading of the clock at which New York time
\* reaches it (cutoff): None when config has no such attribute, as config.py
\* stands
Feed(open, mids, times, cutoff) ==
    [open |-> open, mids |-> mids, times |-> times, SHUTDOWN_TIME |-> cutoff]

\* config.SHUTDOWN_TIME: missing, reached at the second clock reading, or
\* not reached in the run
ShutdownTimes == {None, 1800, 3600}

\* main() has discovered the market and is about to place its initial quotes
\* on the feed e: no record yet, nothing resting, no handler installed
Started(e) ==
    /\ env = e
    /\ qm = QuotedMarket
    /\ venue = {}
    /\ faults = 0
    /\ held = [yes |-> 0, no |-> 0]
    /\ now = 0
    /\ observed = [yes |-> FALSE, no |-> FALSE]
    /\ frame = NoFrame
    /\ pc = "start"
    /\ calc = NoCall
    /\ MainIdle
    /\ FetchIdle

Init ==
    \E s \in ShutdownTimes :
       Started(Feed(MidSet \cup {None, NaN}, PollMids, Times, s))

\* place_quotes as main() is in it: about to be called, get_midpoint giving
\* any of the opening midpoints, or where it was left
Quoting ==
    IF frame.fn = "none"
    THEN {Ctx("place_quotes", "quote_open", QuotedMarket, venue,
              [NoData EXCEPT !.mid = mid], MaxFaults - faults, now)
          : mid \in env.open}
    ELSE {[Ctx("place_quotes", frame.at, frame.quoted, venue, NoData,
               MaxFaults - faults, now)
             EXCEPT !.todo = frame.todo, !.plan = frame.plan,
                    !.path = "quoted"]}

\* qm = place_quotes(client, market), one venue call at a time: the midpoint
\* is read; unknown or below MIN_QUOTABLE_MID, nothing is quoted and main()
\* leaves with sys.exit(1); on NaN compute_quotes raises and main() ends
\* with it; else the record is built, the bid and the ask are submitted,
\* and the record is kept, whatever became of the two submissions
StartUp ==
    /\ pc = "start"
    /\ \E x \in UNION {Advance(c) : c \in Quoting} :
          /\ venue' = Anonymous(x.venue, Known(x.qm, x.todo))
          /\ faults' = MaxFaults - x.budget
          /\ now' = x.now
          /\ IF Done(x)
             THEN /\ frame' = NoFrame
                  /\ qm' = IF x.path = "quoted" THEN x.qm ELSE qm
                  /\ pc' = CASE x.path = "none" -> "exit1"
                              [] x.path = "raised" -> "crashed"
                              [] OTHER -> "quoted"
             ELSE /\ frame' = Frame(x)
                  /\ UNCHANGED <<qm, pc>>
    /\ UNCHANGED <<held, observed, market_data, unused_in_Spec>>

\* signal.signal(signal.SIGINT, handle_sigint), and the poll loop is entered
InstallHandler ==
    /\ pc = "quoted"
    /\ pc' = "poll"
    /\ UNCHANGED <<botvars, market_data, unused_in_Spec>>

\* SIGINT before the handler is installed: KeyboardInterrupt ends main() and
\* nothing is cancelled; inside place_quotes, the record it was building is
\* lost with it
StartUpInterrupted ==
    /\ pc \in {"start", "quoted"}
    /\ venue' = Normalize(venue, qm)
    /\ frame' = NoFrame
    /\ pc' = "interrupted"
    /\ UNCHANGED <<qm, held, now, faults, observed, market_data,
                   unused_in_Spec>>

\* main() sleeps between two polls
Asleep == pc = "poll" /\ market_data = <<>> /\ frame.fn = "none"

\* past_shutdown_time() where config.SHUTDOWN_TIME is defined: the clock has
\* reached it
past_shutdown_time == env.SHUTDOWN_TIME # None /\ now >= env.SHUTDOWN_TIME

\* past_shutdown_time() with no config.SHUTDOWN_TIME: the attribute lookup
\* raises AttributeError outside any try, and main() ends at the first turn
\* of its loop with nothing cancelled and nothing cleared
Crash ==
    /\ Asleep
    /\ env.SHUTDOWN_TIME = None
    /\ pc' = "crashed"
    /\ UNCHANGED <<botvars, market_data, unused_in_Spec>>

\* What fetch_market_data can return for the market: each balance as held, or
\* None when its read raised; the midpoint the venue reports, or None
MarketData ==
    {[yes_bal |-> y, no_bal |-> n, mid |-> m]
     : y \in {held.yes, None}, n \in {held.no, None},
       m \in env.mids \cup {None}}

\* The reads of a fetch that raised.  get_midpoint returns None for an answer
\* without a positive midpoint and swallows what its client call raises: an
\* unknown midpoint takes no failure
FailedReads(in) ==
    (IF in.yes_bal = None THEN 1 ELSE 0) + (IF in.no_bal = None THEN 1 ELSE 0)

\* main() is in its loop past the cutoff check of this turn:
\* past_shutdown_time() has returned False
Polling ==
    /\ pc = "poll"
    /\ env.SHUTDOWN_TIME # None
    /\ Asleep => ~past_shutdown_time

\* market_data = fetch_market_data(client, quoted_markets).  The function
\* waits for its reads, so the clock may have moved on when it returns: the
\* cutoff check of this turn read it before.  The fetch is a step of its own
\* when it took time, or while the run can still take a failure (only then
\* can the venue or the dumper act between the fetch and the return of the
\* call that processes what it fetched).  The triple fetched is kept until
\* then.
FetchMarketData ==
    /\ Polling
    /\ Asleep
    /\ \E in \in MarketData : \E t \in Later(now) :
          /\ \/ faults + FailedReads(in) < MaxFaults
             \/ t > now /\ faults + FailedReads(in) = MaxFaults
          /\ faults' = faults + FailedReads(in)
          /\ market_data' = <<in>>
          /\ now' = t
    /\ UNCHANGED <<qm, venue, held, observed, frame, pc, unused_in_Spec>>

\* The triples process_market_cycle can be called on in this state: the one
\* fetched and kept, else any the fetch of this turn of the loop can return
Inputs ==
    IF ~Polling \/ frame.fn # "none" THEN {}
    ELSE IF market_data # <<>> THEN {market_data[1]}
    ELSE {in \in MarketData : faults + FailedReads(in) <= MaxFaults}

\* the failures the run has seen once the triple in is fetched
FaultsAt(in) ==
    IF market_data # <<>> THEN faults ELSE faults + FailedReads(in)

\* The results of process_market_cycle on the fetched triple in, here and
\* now: one per outcome of the venue calls, of which no more fail than the
\* run still allows
StepResults(in) ==
    process_market_cycle(qm, venue, in.yes_bal, in.no_bal, in.mid, now,
                         MaxFaults - FaultsAt(in))

\* per side: the inventory still held has been handed to a cycle, once the
\* cycle that reads in has run
Observed(in) ==
    [yes |-> held.yes >= INVENTORY_MIN_SHARES
             /\ (observed.yes \/ has_shares(in.yes_bal)),
     no  |-> held.no >= INVENTORY_MIN_SHARES
             /\ (observed.no \/ has_shares(in.no_bal))]

\* The triples the running turn of the loop works on: the one fetched and
\* kept, else any the fetch of this turn can return
Fetched ==
    IF market_data # <<>> THEN {market_data[1]}
    ELSE {in \in MarketData : faults + FailedReads(in) <= MaxFaults}

\* The clock readings at which the call of this turn of the loop can start:
\* where the fetch is still to be made it waits for its reads and the clock
\* may move on; once the triple is kept the clock is as the fetch left it
FetchedAt == IF Asleep THEN Later(now) ELSE {now}

\* process_market_cycle as main() is in it: about to be called on the triple
\* in fetched at time t, or where it was left
Cycling(in, t) ==
    IF frame.fn = "none"
    THEN Ctx("process_market_cycle", "enter", qm, venue, in,
             MaxFaults - FaultsAt(in), t)
    ELSE [Ctx("process_market_cycle", frame.at, qm, venue, in,
              MaxFaults - faults, now)
            EXCEPT !.todo = frame.todo, !.plan = frame.plan, !.path = "full"]

\* quoted_markets[i] = process_market_cycle(client, qm, yes_bal, no_bal, mid)
\* on the triple fetched (fetched in this very step, the clock moving on
\* while the reads are waited for, when the fetch was no step of its own),
\* one venue call at a time: the call makes the
\* assignments that follow the venue call it is back from and runs until its
\* next venue call has come back, or returns.  The call never reads the venue
\* again: what the venue does while it runs acts on the book, not on the
\* call.  Step(in, x): main() is left with the call on the triple in as x.
Step(in, x) ==
    /\ qm' = x.qm
    /\ venue' = Anonymous(x.venue, Known(x.qm, x.todo))
    /\ faults' = MaxFaults - x.budget
    /\ now' = x.now
    /\ IF Done(x)
       THEN /\ frame' = NoFrame
            /\ market_data' = <<>>
            /\ observed' = Observed(in)
       ELSE /\ frame' = Frame(x)
            /\ market_data' = <<in>>
            /\ UNCHANGED observed
    /\ UNCHANGED <<held, pc, unused_in_Spec>>

\* A call that raises (compute_quotes on a NaN midpoint) ends in the except
\* Exception of the loop: the record stays as the call left it, and the
\* loop goes on as after a return.
ProcessMarketCycle ==
    /\ Polling
    /\ \E in \in Fetched : \E t \in FetchedAt :
          \E x \in Advance(Cycling(in, t)) : Step(in, x)

\* main() is running (not yet gone)
Alive == pc \in {"start", "quoted", "poll"}

\* The venue or the dumper acts between two polls, during the start-up, or
\* between a fetch and the return of the call that processes what it
\* fetched: the latter is counted in faults
Raced ==
    /\ market_data # <<>> => faults < MaxFaults
    /\ faults' = IF market_data # <<>> THEN faults + 1 ELSE faults

\* the record the running code works on
Record == IF frame.fn = "place_quotes" THEN frame.quoted ELSE qm

\* time passes in the sleep between polls.  (Time that passes inside a venue
\* call or inside the fetch is read when the call comes back.)
Tick ==
    /\ Asleep
    /\ \E t \in env.times : t > now /\ now' = t
    /\ UNCHANGED <<qm, venue, held, faults, observed, frame, pc, market_data,
                   unused_in_Spec>>

\* The venue fills a resting BUY (the bid buys YES, the ask buys NO): the
\* order leaves the book and the position is held.
FillBuy(kind, side) ==
    /\ Alive
    /\ \E o \in venue :
       /\ o.kind = kind
       /\ venue' = Anonymous(venue \ {o}, Known(Record, frame.todo))
       /\ held' = [held EXCEPT ![side] = INVENTORY_MIN_SHARES]
       /\ Raced
       /\ UNCHANGED <<qm, now, observed, frame, pc, market_data,
                      unused_in_Spec>>

\* The venue fills a resting exit SELL: the order leaves the book and the
\* position is gone.
FillExit(kind, side) ==
    /\ Alive
    /\ \E o \in venue :
       /\ o.kind = kind
       /\ held[side] >= INVENTORY_MIN_SHARES
       /\ venue' = Anonymous(venue \ {o}, Known(Record, frame.todo))
       /\ held' = [held EXCEPT ![side] = 0]
       /\ observed' = [observed EXCEPT ![side] = FALSE]
       /\ Raced
       /\ UNCHANGED <<qm, now, frame, pc, market_data, unused_in_Spec>>

\* The position is sold outside the bot (the inventory dumper of
\* src/inventory.py runs alongside it): the exit order, if any, still rests.
Dump(side) ==
    /\ Alive
    /\ held[side] >= INVENTORY_MIN_SHARES
    /\ held' = [held EXCEPT ![side] = 0]
    /\ observed' = [observed EXCEPT ![side] = FALSE]
    /\ Raced
    /\ UNCHANGED <<qm, venue, now, frame, pc, market_data, unused_in_Spec>>

\* Where a signal finds main() inside its poll loop: asleep between two
\* polls or in the cutoff check; or, once past_shutdown_time() has returned
\* False, between the fetch and the processing, or inside
\* process_market_cycle, at any statement from where the call is up to its
\* next venue call (the handler runs between any two bytecodes).  The clock
\* is the one of this state: a signal after a fetch that took time finds
\* main() in the state FetchMarketData left.
SignalPoints ==
    {[qm |-> qm, venue |-> venue, budget |-> MaxFaults - faults]}
    \cup (IF Polling THEN UNION {Points(Cycling(in, now)) : in \in Fetched}
          ELSE {})

\* What main() leaves behind when it runs cancel_all_quoted at point p and
\* exits, the sweep running to its end or cut short by a further SIGINT
Swept(p) ==
    LET c0 == Ctx("cancel_all_quoted", "enter", p.qm, p.venue, NoData,
                  p.budget, now)
    IN {[qm |-> c.qm, venue |-> Normalize(c.venue, c.qm), calls |-> c.calls,
         budget |-> c.budget]
        : c \in cancel_all_quoted(c0) \cup cancel_all_quoted_cut_short(c0)}

\* the record, the book and the failures left behind by a sweep
Left(r) == [qm |-> r.qm, venue |-> r.venue, budget |-> r.budget]

\* handle_sigint, wherever the signal finds main() in its poll loop:
\* cancel_all_quoted on the record as it is, then sys.exit(0).  Whatever
\* main() was running is never resumed.
Sigint ==
    /\ pc = "poll"
    /\ \E r \in UNION {{Left(x) : x \in Swept(p)} : p \in SignalPoints} :
          /\ qm' = r.qm
          /\ venue' = r.venue
          /\ faults' = MaxFaults - r.budget
    /\ pc' = "exit"
    /\ market_data' = <<>>
    /\ frame' = NoFrame
    /\ UNCHANGED <<held, now, observed, unused_in_Spec>>

\* The poll that finds past_shutdown_time() true: cancel_all_quoted, then
\* the loop is left
ShutdownTime ==
    /\ Asleep
    /\ past_shutdown_time
    /\ \E r \in {Left(x) : x \in Swept([qm |-> qm, venue |-> venue,
                                         budget |-> MaxFaults - faults])} :
          /\ qm' = r.qm
          /\ venue' = r.venue
          /\ faults' = MaxFaults - r.budget
    /\ pc' = "exit"
    /\ UNCHANGED <<held, now, observed, frame, market_data, unused_in_Spec>>

FillBid == FillBuy("bid", "yes")
FillAsk == FillBuy("ask", "no")
FillYesExit == FillExit("yes_exit", "yes")
FillNoExit == FillExit("no_exit", "no")
DumpYes == Dump("yes")
DumpNo == Dump("no")

Next ==
    \/ StartUp
    \/ InstallHandler
    \/ StartUpInterrupted
    \/ Crash
    \/ FetchMarketData
    \/ ProcessMarketCycle
    \/ Tick
    \/ FillBid
    \/ FillAsk
    \/ FillYesExit
    \/ FillNoExit
    \/ DumpYes
    \/ DumpNo
    \/ Sigint
    \/ ShutdownTime

Spec == Init /\ [][Next]_vars

----------------------------------------------------------------------------
(* The bot on other feeds *)

\* Midpoints close to one another: 0.4020 is 0.5% above 0.4000 exactly,
\* 0.4035 and 0.4045 are within 0.5% of 0.4020 and of one another, 0.4045 is
\* more than 0.5% above 0.4020; the bid is 0.38 up to 0.4020 and 0.39 above.
\* The market opens at 0.40 and is polled at 0.4020, or opens at 0.4020 and
\* is polled at 0.4035 and 0.4045; the cutoff is missing or reached at the
\* second clock reading.
DriftFeeds ==
    {Feed({4000}, {4020}, Times, s) : s \in {None, 1800}}
    \cup {Feed({4020}, {4035, 4045}, Times, s) : s \in {None, 1800}}

DriftInit == \E e \in DriftFeeds : Started(e)

SpecDrift == DriftInit /\ [][Next]_vars

\* clock readings half way through, at the end of and past the exit
\* escalation
HoldTimes == {0, 900, 1800, 3600}

\* A market that stays at 0.30 while the clock runs through these readings,
\* the cutoff missing or not reached; or one that stays at 0.50, where the
\* YES exit and the NO exit cost the same, the cutoff reached at the second
\* clock reading
HoldFeeds ==
    {Feed({3000}, {3000}, HoldTimes, s) : s \in {None, 7200}}
    \cup {Feed({5000}, {5000}, Times, 1800)}

HoldInit == \E e \in HoldFeeds : Started(e)

SpecHold == HoldInit /\ [][Next]_vars

----------------------------------------------------------------------------
(* The bot under the assumption that reads come to succeed and the venue    *)
(* comes to accept what is submitted: main() runs on (a venue call comes    *)
(* back, the sleep ends), so unless a signal ends it main() places its      *)
(* initial quotes, enters its loop and in every turn crashes on the cutoff  *)
(* check, leaves on the cutoff or polls; and a poll with known balances and *)
(* a quotable midpoint whose venue calls are all accepted keeps happening   *)

\* the triple is what a fetch without a failed read on a quotable midpoint
\* returns
GoodData(in) ==
    /\ in.yes_bal # None /\ in.no_bal # None
    /\ in.mid \notin {None, NaN} /\ in.mid >= MIN_QUOTABLE_MID

\* a step of process_market_cycle on such a triple in which nothing goes
\* wrong
GoodPoll ==
    /\ Polling
    /\ \E in \in Fetched :
          /\ GoodData(in)
          /\ \E t \in FetchedAt : \E x \in Advance(Cycling(in, t)) :
                /\ x.budget = MaxFaults - faults
                /\ Step(in, x)

\* a market that stays at 0.40
FairFeeds == {Feed({4000}, {4000}, Times, s) : s \in ShutdownTimes}

FairInit == \E e \in FairFeeds : Started(e)

\* the next statement of main() is executed
MainRuns ==
    \/ StartUp
    \/ InstallHandler
    \/ Crash
    \/ ShutdownTime
    \/ ProcessMarketCycle

\* main() runs on, and polls in which nothing goes wrong keep coming
SpecFair ==
    /\ FairInit
    /\ [][Next]_vars
    /\ WF_vars(MainRuns)
    /\ SF_vars(GoodPoll)

----------------------------------------------------------------------------
(* The pricing engine on its own: compute_quotes and compute_exit_price    *)
(* called on the arguments of a price grid                                 *)

\* tick sizes "0.001" and "0.01"
Ticks == {10, 100}
\* max_incentive_spread 0.005 and 0.03
Spreads == {50, 300}
\* midpoints handed to compute_quotes: every 0.0005 between 0 and 1
QuoteMids == {5 * k : k \in 1..1999}

\* midpoints handed to compute_exit_price: every 0.05, the ends of the price
\* range, the midpoints 5% and 6% away from the entry midpoints, and 0.595,
\* half way between two ticks of 0.01
ExitMids == {500 * k : k \in 1..19} \cup {100, 9900, 3800, 4200, 4700, 5950}
EntryMids == {0, 4000, 5000}
\* entry prices: two in the middle, and the bounds compute_quotes clamps to
EntryPrices == {10, 3800, 4600, 9990}
Elapsed == {0, 900, 1800, 3600}
\* the clock readings at which the inventory appeared
Since == {0, 100}

QuoteCalls ==
    {[NoCall EXCEPT !.fn = "compute_quotes",
                    !.market = [tick_size |-> s, max_incentive_spread |-> w],
                    !.mid = m]
     : s \in Ticks, w \in Spreads, m \in QuoteMids}

ExitCalls ==
    {[NoCall EXCEPT !.fn = "compute_exit_price",
                    !.market = [tick_size |-> s, max_incentive_spread |-> 300],
                    !.mid = m, !.inventory_since = t0, !.t_now = t0 + e,
                    !.entry_mid = em, !.entry_price = p, !.side = sd]
     : s \in Ticks, m \in ExitMids, t0 \in Since, e \in Elapsed,
       em \in EntryMids, p \in EntryPrices, sd \in {"YES", "NO"}}

\* A call of the pricing engine is about to be made on arguments of the grid
PricingInit ==
    /\ calc \in QuoteCalls \cup ExitCalls
    /\ qm = QuotedMarket
    /\ venue = {}
    /\ held = [yes |-> 0, no |-> 0]
    /\ now = calc.t_now
    /\ faults = 0
    /\ observed = [yes |-> FALSE, no |-> FALSE]
    /\ frame = NoFrame
    /\ pc = "pricing"
    /\ env = Feed(MidSet, MidSet, Times, 3600)
    /\ MainIdle
    /\ FetchIdle

\* bid, ask = compute_quotes(market, midpoint)
ComputeQuotes ==
    /\ calc.fn = "compute_quotes" /\ ~calc.done
    /\ \E q \in compute_quotes(calc.market, calc.mid) :
          calc' = [calc EXCEPT !.done = TRUE, !.bid = q.bid, !.ask = q.ask]
    /\ UNCHANGED unused_in_Pricing

\* price = compute_exit_price(market, mid, inventory_since, entry_mid,
\*                            entry_price, side) at time t_now
ComputeExitPrice ==
    /\ calc.fn = "compute_exit_price" /\ ~calc.done
    /\ \E price \in compute_exit_price(calc.market, calc.mid,
                         calc.inventory_since, calc.entry_mid,
                         calc.entry_price, calc.side, calc.t_now) :
          calc' = [calc EXCEPT !.done = TRUE, !.price = price]
    /\ UNCHANGED unused_in_Pricing

PricingNext ==
    \/ ComputeQuotes
    \/ ComputeExitPrice

SpecPricing == PricingInit /\ [][PricingNext]_vars

----------------------------------------------------------------------------
(* main() over several markets: discovery, the initial quotes, the poll    *)
(* loop, the cutoff and SIGINT.  Nothing fills here; what a cycle does to   *)
(* its market under fills is the subject of Spec.                           *)

\* markets discover_markets() returns at most
MaxMarkets == 2
\* venue calls that go wrong in one run of main()
MainFaults == 2

\* the lists discover_markets() can return: each market with or without an
\* incentive spread
Discovered ==
    UNION {[1..n -> {[tick_size |-> Market.tick_size,
                      max_incentive_spread |-> w] : w \in {0, 300}}]
           : n \in 0..MaxMarkets}

\* what get_midpoint returns to the place_quotes calls of main(): a quotable
\* midpoint, none, or NaN
StartMids == {4000, None, NaN}

\* the midpoints the polls of main() read: the one the quotes were placed
\* on, or NaN
MainMids == {4000, 4300, NaN}

\* what fetch_market_data returns for a market: both balances read 0
PollData == {[yes_bal |-> 0, no_bal |-> 0, mid |-> m] : m \in env.mids}

\* main() is started
MainInit ==
    /\ pc = "discover"
    /\ \E s \in ShutdownTimes : env = Feed(StartMids, MainMids, Times, s)
    /\ MainIdle
    /\ qm = QuotedMarket
    /\ venue = {}
    /\ held = [yes |-> 0, no |-> 0]
    /\ now = 0
    /\ faults = 0
    /\ observed = [yes |-> FALSE, no |-> FALSE]
    /\ frame = NoFrame
    /\ calc = NoCall
    /\ FetchIdle

\* markets = discover_markets(); if not markets: sys.exit(1)
Discover ==
    /\ pc = "discover"
    /\ \E ms \in Discovered :
          /\ markets' = ms
          /\ pc' = IF ms = <<>> THEN "exit1" ELSE "quote"
    /\ loop_i' = 1
    /\ UNCHANGED <<quoted_markets, books, market_data, log, venue, now,
                   faults, frame, unused_in_Main>>

\* the call main() is inside, as it was left: of the function fn on the
\* record q and the book of its market, with the arguments in
Resumed(fn, q, book, in, path) ==
    [Ctx(fn, frame.at, q, book, in, MainFaults - faults, now)
       EXCEPT !.todo = frame.todo, !.plan = frame.plan, !.path = path]

\* place_quotes(client, market) as main() is in it: about to be called,
\* get_midpoint giving any of the opening midpoints, or where it was left.
\* venue is the book of the market being quoted.
MainQuoting ==
    IF frame.fn = "none"
    THEN {Ctx("place_quotes", "quote_open", QuotedMarket, {},
              [NoData EXCEPT !.mid = mid], MainFaults - faults, now)
          : mid \in env.open}
    ELSE {Resumed("place_quotes", frame.quoted, venue, NoData, "quoted")}

\* One turn of "for market in markets", one venue call at a time: a market
\* without incentive spread is skipped; else place_quotes runs, and what it
\* returns is appended if it is truthy (a record is, None is not).  When
\* place_quotes raises (compute_quotes on a NaN midpoint) main() ends with
\* the exception, the orders of the markets quoted before still resting.
PlaceInitialQuotes ==
    /\ pc = "quote"
    /\ loop_i <= Len(markets)
    /\ IF markets[loop_i].max_incentive_spread <= 0
       THEN /\ loop_i' = loop_i + 1
            /\ UNCHANGED <<quoted_markets, books, venue, now, faults, frame,
                           pc>>
       ELSE \E x \in UNION {Advance(c) : c \in MainQuoting} :
               /\ faults' = MainFaults - x.budget
               /\ now' = x.now
               /\ IF Done(x)
                  THEN /\ frame' = NoFrame
                       /\ venue' = {}
                       /\ pc' = IF x.path = "raised" THEN "crashed" ELSE pc
                       /\ loop_i' = IF x.path = "raised" THEN loop_i
                                    ELSE loop_i + 1
                       /\ IF x.path = "quoted"
                          THEN /\ quoted_markets' =
                                     Append(quoted_markets, x.qm)
                               /\ books' =
                                     Append(books, Normalize(x.venue, x.qm))
                          ELSE UNCHANGED <<quoted_markets, books>>
                  ELSE /\ frame' = Frame(x)
                       /\ venue' = Anonymous(x.venue, Known(x.qm, x.todo))
                       /\ UNCHANGED <<quoted_markets, books, loop_i, pc>>
    /\ UNCHANGED <<markets, market_data, log, unused_in_Main>>

\* SIGINT before the handler is installed (up to main.py line 96):
\* KeyboardInterrupt ends main() and nothing is cancelled; inside
\* place_quotes, the record it was building is lost with it, and what it
\* had placed rests on
MainInterrupted ==
    /\ pc \in {"discover", "quote"}
    /\ pc' = "interrupted"
    /\ frame' = NoFrame
    /\ UNCHANGED <<mainvars, venue, now, faults, unused_in_Main>>

\* After the for loop: if not quoted_markets: sys.exit(1); else
\* handle_sigint is installed and the monitor loop is entered
EnterLoop ==
    /\ pc = "quote"
    /\ loop_i > Len(markets)
    /\ pc' = IF quoted_markets = <<>> THEN "exit1" ELSE "sleep"
    /\ UNCHANGED <<mainvars, venue, now, faults, frame, unused_in_Main>>

\* time passes in time.sleep(config.POLL_INTERVAL_SECONDS)
MainTick ==
    /\ pc = "sleep"
    /\ \E t \in env.times : t > now /\ now' = t
    /\ UNCHANGED <<mainvars, pc, venue, faults, frame, unused_in_Main>>

\* past_shutdown_time() with no config.SHUTDOWN_TIME: the attribute lookup
\* raises AttributeError outside any try, and main() ends in the first
\* iteration of the loop with nothing cancelled and nothing cleared
MainCrash ==
    /\ pc = "sleep"
    /\ env.SHUTDOWN_TIME = None
    /\ pc' = "crashed"
    /\ UNCHANGED <<mainvars, venue, now, faults, frame, unused_in_Main>>

\* A poll begins (past_shutdown_time() returned False): fetch_market_data
\* returns one triple per quoted market, at once or after the clock has
\* moved on while it waited for its reads
Fetch ==
    /\ pc = "sleep"
    /\ env.SHUTDOWN_TIME # None
    /\ ~past_shutdown_time
    /\ market_data' \in [1..Len(quoted_markets) -> PollData]
    /\ now' \in Later(now)
    /\ loop_i' = 1
    /\ log' = <<>>
    /\ pc' = "process"
    /\ UNCHANGED <<markets, quoted_markets, books, venue, faults, frame,
                   unused_in_Main>>

\* what the log keeps of the turn of the for loop for market i: how the call
\* ended, and the triple it was handed
Processed(i, what) ==
    [what |-> what, market |-> i, data |-> market_data[i], calls |-> <<>>]

\* what the log keeps of a cancel_all_quoted: why it ran, its venue calls
SweepEntry(what, calls) ==
    [what |-> what, market |-> 0, data |-> NoData, calls |-> calls]

\* the for loop of the poll moves on: to the next market, or to the sleep
\* before the next poll
NextMarket ==
    /\ loop_i' = loop_i + 1
    /\ pc' = IF loop_i = Len(quoted_markets) THEN "sleep" ELSE "process"

\* process_market_cycle(client, qm, yes_bal, no_bal, mid) for market loop_i
\* as main() is in it: about to be called on the market's triple, or where
\* it was left
MainCycling ==
    IF frame.fn = "none"
    THEN Ctx("process_market_cycle", "enter", quoted_markets[loop_i],
             books[loop_i], market_data[loop_i], MainFaults - faults, now)
    ELSE Resumed("process_market_cycle", quoted_markets[loop_i],
                 books[loop_i], market_data[loop_i], "full")

\* main() is left with the call on market loop_i as x: the record is mutated
\* in place, whether the call returns or raises
Left_in(x) ==
    /\ quoted_markets' = [quoted_markets EXCEPT ![loop_i] = x.qm]
    /\ books' = [books EXCEPT
                   ![loop_i] = Anonymous(x.venue, Known(x.qm, x.todo))]
    /\ faults' = MainFaults - x.budget
    /\ now' = x.now
    /\ frame' = IF Done(x) THEN NoFrame ELSE Frame(x)
    /\ UNCHANGED <<markets, market_data, venue, unused_in_Main>>

\* quoted_markets[i] = process_market_cycle(client, qm, yes_bal, no_bal, mid),
\* one venue call at a time, up to and with its return
ProcessReturns ==
    /\ pc = "process"
    /\ \E x \in Advance(MainCycling) :
          /\ x.path # "raised"
          /\ Left_in(x)
          /\ IF Done(x)
             THEN /\ log' = Append(log, Processed(loop_i, "returned"))
                  /\ NextMarket
             ELSE UNCHANGED <<log, loop_i, pc>>

\* the poll gone wrong: the exception of one market ends the for loop
ProcessRaises_ends_poll ==
    /\ pc = "process"
    /\ \E x \in Advance(MainCycling) :
          /\ x.path = "raised"
          /\ Left_in(x)
    /\ log' = Append(log, Processed(loop_i, "raised"))
    /\ loop_i' = loop_i + 1
    /\ pc' = "sleep"

\* process_market_cycle raises (compute_quotes on a NaN midpoint, a side
\* needing placement): except Exception logs the error and the for loop
\* goes on
ProcessRaises ==
    /\ pc = "process"
    /\ \E x \in Advance(MainCycling) :
          /\ x.path = "raised"
          /\ Left_in(x)
    /\ log' = Append(log, Processed(loop_i, "raised"))
    /\ NextMarket

\* the records with their four ids cleared
AllCleared(qs) == [j \in DOMAIN qs |-> ClearedTo(qs[j], 4)]

\* the records once cancel_all_quoted has made the first p of its
\* assignments, four per market in list order
PartCleared(qs, p) ==
    [j \in DOMAIN qs |->
       ClearedTo(qs[j], Max(0, Min(4, p - 4 * (j - 1))))]

\* what a cancel_all_quoted over the list leaves: the records, the books
\* (the orders no record names any more made anonymous), its venue calls,
\* the failures the run can still take
SweepResult(qs, bs, calls, budget) ==
    [qs |-> qs, bs |-> [j \in DOMAIN bs |-> Normalize(bs[j], qs[j])],
     calls |-> calls, budget |-> budget]

\* the bulk cancel of cancel_all_quoted (client.cancel_orders) and its
\* fallback (client.cancel_all) as the log keeps them: ok when the call
\* returned
BulkCancel(ok) == [op |-> "cancel", ok |-> ok]
CancelAll(ok) == [op |-> "cancel_all", ok |-> ok]

\* the sweep gone wrong: the ids are kept when both cancels raise
cancel_all_quoted_list_keeps_ids(qs, bs, budget) ==
    LET ids(j) == AllIds(qs[j])
        cleared == AllCleared(qs)
    IN IF \A j \in DOMAIN qs : ids(j) = {}
       THEN {SweepResult(cleared, bs, <<>>, budget)}
       ELSE {SweepResult(cleared,
                         [j \in DOMAIN bs |->
                            {o \in bs[j] : o.id \notin ids(j)}],
                         <<BulkCancel(TRUE)>>, budget)}
            \cup (IF budget > 0
                  THEN {SweepResult(cleared, [j \in DOMAIN bs |-> {}],
                                    <<BulkCancel(FALSE), CancelAll(TRUE)>>,
                                    budget - 1)}
                  ELSE {})
            \cup (IF budget > 1
                  THEN {SweepResult(qs, bs,
                                    <<BulkCancel(FALSE), CancelAll(FALSE)>>,
                                    budget - 2)}
                  ELSE {})

\* cancel_all_quoted(client, quoted_markets) over the list qs with the books
\* bs: every recorded id is collected and the four ids of every market are
\* cleared; then nothing is called when no id was collected; else the bulk
\* cancel returns (the orders collected rest no more), or it raises and
\* cancel_all returns (nothing rests any more), or both raise (the books
\* are as they were)
cancel_all_quoted_list(qs, bs, budget) ==
    LET ids(j) == AllIds(qs[j])
        cleared == AllCleared(qs)
    IN IF \A j \in DOMAIN qs : ids(j) = {}
       THEN {SweepResult(cleared, bs, <<>>, budget)}
       ELSE {SweepResult(cleared,
                         [j \in DOMAIN bs |->
                            {o \in bs[j] : o.id \notin ids(j)}],
                         <<BulkCancel(TRUE)>>, budget)}
            \cup (IF budget > 0
                  THEN {SweepResult(cleared, [j \in DOMAIN bs |-> {}],
                                    <<BulkCancel(FALSE), CancelAll(TRUE)>>,
                                    budget - 1)}
                  ELSE {})
            \cup (IF budget > 1
                  THEN {SweepResult(cleared, bs,
                                    <<BulkCancel(FALSE), CancelAll(FALSE)>>,
                                    budget - 2)}
                  ELSE {})

\* cancel_all_quoted over the list cut short: a further SIGINT arrives while
\* it runs, the handler calls cancel_all_quoted again on the records as they
\* are by then, and sys.exit(0) ends the call that was cut short.  The
\* signal can fall after any of the assignments: the ids cleared by then are
\* collected no more and their orders are never cancelled; or after the bulk
\* cancel has raised: the second call finds every id cleared, and cancel_all
\* is never called.
cancel_all_quoted_list_cut_short(qs, bs, budget) ==
    LET again == {PartCleared(qs, p) : p \in 1..(4 * Len(qs))}
        raised(x) ==
            IF (\A j \in DOMAIN x : AllIds(x[j]) = {}) \/ budget = 0 THEN {}
            ELSE {SweepResult(AllCleared(x), bs, <<BulkCancel(FALSE)>>,
                              budget - 1)}
    IN UNION {cancel_all_quoted_list(x, bs, budget) \cup raised(x)
              : x \in again \ {qs}}
       \cup raised(qs)

\* What main() leaves behind when it runs cancel_all_quoted on the list qs
\* and exits, the sweep running to its end or cut short by a further SIGINT
MainSwept(qs, bs, budget) ==
    cancel_all_quoted_list(qs, bs, budget)
    \cup cancel_all_quoted_list_cut_short(qs, bs, budget)

\* main() ends on the sweep r, run for the reason what
Ends(r, what) ==
    /\ quoted_markets' = r.qs
    /\ books' = r.bs
    /\ faults' = MainFaults - r.budget
    /\ log' = Append(log, SweepEntry(what, r.calls))
    /\ pc' = "exit"
    /\ frame' = NoFrame
    /\ UNCHANGED <<markets, market_data, loop_i, venue, now, unused_in_Main>>

\* The turn of the loop that finds past_shutdown_time() true:
\* cancel_all_quoted(client, quoted_markets), then break
MainShutdown ==
    /\ pc = "sleep"
    /\ past_shutdown_time
    /\ \E r \in MainSwept(quoted_markets, books, MainFaults - faults) :
          Ends(r, "cutoff")

\* Where a signal finds main() in its loop: asleep or in the cutoff check,
\* the lists as they are; in a poll, between two markets or inside
\* process_market_cycle, at any statement from where the call is up to its
\* next venue call, the record of the market as the call has left it
MainSignalPoints ==
    IF pc = "sleep"
    THEN {[qs |-> quoted_markets, bs |-> books, budget |-> MainFaults - faults]}
    ELSE {[qs |-> [quoted_markets EXCEPT ![loop_i] = p.qm],
           bs |-> [books EXCEPT ![loop_i] = p.venue],
           budget |-> p.budget]
          : p \in Points(MainCycling)}

\* handle_sigint, wherever the signal finds main() in its loop:
\* cancel_all_quoted(client, quoted_markets) on the records as they are,
\* then sys.exit(0).  SystemExit is no Exception: the except clause of the
\* for loop lets it pass, and the poll is never resumed.
MainSigint ==
    /\ pc \in {"sleep", "process"}
    /\ \E p \in MainSignalPoints :
          \E r \in MainSwept(p.qs, p.bs, p.budget) : Ends(r, "sigint")

MainNext ==
    \/ Discover
    \/ PlaceInitialQuotes
    \/ MainInterrupted
    \/ EnterLoop
    \/ MainTick
    \/ MainCrash
    \/ Fetch
    \/ ProcessReturns
    \/ ProcessRaises
    \/ MainShutdown
    \/ MainSigint

SpecMain == MainInit /\ [][MainNext]_vars

----------------------------------------------------------------------------
(* fetch_market_data: the three reads of every tracked market are submitted *)
(* to a pool of at most three worker threads, and the calling thread        *)
(* collects the futures in the order of their submission.  A step is one    *)
(* submission, one worker taking the oldest queued read, one read coming    *)
(* back, or one future.result() of the collecting loop.                     *)

\* markets tracked during a poll: main() leaves before the loop with none
FetchMarkets == 2

\* the fields of results[i], in the order the reads of a market are submitted
Keys == <<"yes_bal", "no_bal", "mid">>

\* work: the (index, field) of the k-th item, for n markets
work(n) ==
    [k \in 1..(3 * n) |-> [idx |-> ((k - 1) \div 3) + 1, key |-> Keys[((k - 1) % 3) + 1]]]

\* max_workers = min(len(work), 3)
max_workers(n) == IF 3 * n < 3 THEN 3 * n ELSE 3

\* What the venue answers to the read of item k: the call raises, or carries
\* a raw balance (6 decimals) or a midpoint; a balance of nothing and a
\* response without a midpoint are answers too
Responses(item, k) ==
    {[raises |-> TRUE, value |-> 0], [raises |-> FALSE, value |-> 0]} \cup
    (IF item.key = "mid"
     THEN {[raises |-> FALSE, value |-> 4000 + 100 * item.idx]}
     ELSE {[raises |-> FALSE, value |-> 1000000 * k]})

\* get_token_balance: raw / 1e6 in shares, here in hundredths of a share;
\* an exception of the client call goes through
get_token_balance(resp) ==
    IF resp.raises THEN [ok |-> FALSE, value |-> None]
    ELSE [ok |-> TRUE, value |-> resp.value \div 10000]

\* get_midpoint: None when the client call raises or reports no positive mid
get_midpoint(resp) ==
    IF resp.raises \/ resp.value <= 0 THEN [ok |-> TRUE, value |-> None]
    ELSE [ok |-> TRUE, value |-> resp.value]

\* the callable of a work item, applied to the venue's answer
run(item, resp) ==
    IF item.key = "mid" THEN get_midpoint(resp) ELSE get_token_balance(resp)

Running == {k \in 1..Len(futures) : futures[k].state = "running"}

\* results = {i: {"yes_bal": None, "no_bal": None, "mid": None} for i in range(n)}
FetchInit ==
    /\ pc = "submit"
    /\ env = Feed(MidSet, MidSet, Times, 3600)
    /\ \E n \in 1..FetchMarkets :
          results = [i \in 1..n |-> [yes_bal |-> None, no_bal |-> None, mid |-> None]]
    /\ futures = <<>>
    /\ collect = 0
    /\ fetched = <<>>
    /\ qm = QuotedMarket
    /\ venue = {}
    /\ held = [yes |-> 0, no |-> 0]
    /\ now = 0
    /\ faults = 0
    /\ observed = [yes |-> FALSE, no |-> FALSE]
    /\ frame = NoFrame
    /\ calc = NoCall
    /\ MainIdle

\* pool.submit(fn) for the next work item; after the last one the loop over
\* the futures begins
Submit ==
    /\ pc = "submit"
    /\ LET n == Len(results)
           k == Len(futures) + 1
       IN /\ futures' = Append(futures, [idx |-> work(n)[k].idx, key |-> work(n)[k].key,
                                         state |-> "queued",
                                         resp |-> [raises |-> FALSE, value |-> 0],
                                         ok |-> FALSE, value |-> None])
          /\ pc' = IF k = 3 * n THEN "collect" ELSE pc
          /\ collect' = IF k = 3 * n THEN 1 ELSE collect
    /\ UNCHANGED <<results, fetched, unused_in_Fetch>>

\* a worker takes the oldest queued item; at most max_workers items run
Start ==
    /\ pc \in {"submit", "collect"}
    /\ \E k \in 1..Len(futures) :
          /\ futures[k].state = "queued"
          /\ \A j \in 1..(k - 1) : futures[j].state # "queued"
          /\ Cardinality(Running) < max_workers(Len(results))
          /\ futures' = [futures EXCEPT ![k].state = "running"]
    /\ UNCHANGED <<results, collect, fetched, pc, unused_in_Fetch>>

\* the read of a running item comes back: the future holds what the callable
\* returned, or its exception
Finish ==
    /\ pc \in {"submit", "collect"}
    /\ \E k \in Running :
       \E resp \in Responses(futures[k], k) :
          LET out == run(futures[k], resp)
          IN futures' = [futures EXCEPT ![k].state = "done", ![k].resp = resp,
                                        ![k].ok = out.ok, ![k].value = out.value]
    /\ UNCHANGED <<results, collect, fetched, pc, unused_in_Fetch>>

\* the loop stores the next future without waiting for it: one that has not
\* finished counts as failed
Collect_without_waiting ==
    /\ pc = "collect"
    /\ collect <= Len(futures)
    /\ LET f == futures[collect]
       IN results' = IF f.state = "done" /\ f.ok
                     THEN [results EXCEPT ![f.idx][f.key] = f.value]
                     ELSE results
    /\ collect' = collect + 1
    /\ UNCHANGED <<futures, fetched, pc, unused_in_Fetch>>

\* for future in futures: results[idx][key] = future.result(), which blocks
\* until that future is done; an exception leaves the field as it was
Collect ==
    /\ pc = "collect"
    /\ collect <= Len(futures)
    /\ futures[collect].state = "done"
    /\ LET f == futures[collect]
       IN results' = IF f.ok THEN [results EXCEPT ![f.idx][f.key] = f.value]
                     ELSE results
    /\ collect' = collect + 1
    /\ UNCHANGED <<futures, fetched, pc, unused_in_Fetch>>

\* the pool is left (shutdown waits for the workers) and the triples are
\* returned in the order of the keys of results
Return ==
    /\ pc = "collect"
    /\ collect = Len(futures) + 1
    /\ \A k \in 1..Len(futures) : futures[k].state = "done"
    /\ fetched' = [i \in 1..Len(results) |->
                     <<results[i].yes_bal, results[i].no_bal, results[i].mid>>]
    /\ pc' = "returned"
    /\ UNCHANGED <<futures, results, collect, unused_in_Fetch>>

FetchNext ==
    \/ Submit
    \/ Start
    \/ Finish
    \/ Collect
    \/ Return

SpecFetch == FetchInit /\ [][FetchNext]_vars

----------------------------------------------------------------------------
(* Properties.  A property about "a call of process_market_cycle" is stated  *)
(* over every reachable state, every input fetch_market_data can hand over   *)
(* in that state and every outcome of the venue calls the call issues.       *)
(* The outcomes are those of StepResults: the calls the run takes, of which *)
(* no more venue calls fail than MaxFaults allows the run.                   *)

\* The triples a call that starts in this state is handed, each call of a
\* run of Spec taken once: the triple fetched and kept; where none is kept,
\* the triples whose fetch is no step of its own.  (Every other triple is
\* kept by FetchMarketData, which changes nothing else but the clock, and is
\* handed to the call in the state after that step.)
Handed ==
    {in \in Inputs : market_data = <<>> => faults + FailedReads(in) = MaxFaults}

Unknown(in) == in.yes_bal = None \/ in.no_bal = None

\* the calls of a result that place an order of a kind / that cancel
Places(r, kind) == {k \in Range(r.calls) : k.op = "place" /\ k.site = kind}
AllPlaces(r) == {k \in Range(r.calls) : k.op = "place"}
Cancels(r) == {k \in Range(r.calls) : k.op = "cancel"}

Resting(book, kind) == {o \in book : o.kind = kind}

\* C1: the venue holds, for the market, at most one resting bid, one resting
\* ask, one resting YES exit and one resting NO exit, whichever place and
\* cancel calls succeed or fail.
AtMostOneRestingPerKind ==
    \A kind \in Kinds : Cardinality(Resting(venue, kind)) <= 1

\* the call returns before the inventory tracking step
EarlyReturn(in) ==
    \/ balance_guard(qm, in.yes_bal, in.no_bal)
    \/ in.mid = None
    \/ (in.mid # NaN /\ in.mid < MIN_QUOTABLE_MID)

InventoryTracked(in, r) ==
    (r.qm.inventory_since # None)
       <=> (has_shares(in.yes_bal) \/ has_shares(in.no_bal))

\* C2 as stated: after every call of process_market_cycle, early returns
\* included, inventory_since is set exactly when a balance handed to the call
\* is at least INVENTORY_MIN_SHARES.
InventorySinceIffHeldAfterEveryCall ==
    \A in \in Inputs : \A r \in StepResults(in) : InventoryTracked(in, r)

\* C2 amended: after every call of process_market_cycle that does not return
\* early (balance guard, unknown midpoint, parking), inventory_since is set
\* exactly when a balance handed to the call is at least INVENTORY_MIN_SHARES;
\* a call that returns early leaves inventory_since as it was.
InventorySinceIffHeldAfterFullCycle ==
    \A in \in Handed : \A r \in StepResults(in) :
       IF EarlyReturn(in)
       THEN r.qm.inventory_since = qm.inventory_since
       ELSE InventoryTracked(in, r)

\* C2 witness: inventory_since is set (only a full cycle that was handed a
\* position sets it), and the full cycle of this poll finds the position
\* gone and clears it.
InventorySinceStampedAndCleared ==
    /\ qm.inventory_since # None
    /\ \E in \in Handed :
          /\ ~EarlyReturn(in)
          /\ ~Unknown(in)
          /\ ~has_shares(in.yes_bal) /\ ~has_shares(in.no_bal)
          /\ \E r \in StepResults(in) : r.qm.inventory_since = None

NoEffect(r) == r.calls = <<>> /\ r.qm = qm /\ r.venue = venue

\* C3: when an exit order id is recorded, a call in which a balance is unknown
\* (whatever the other balance is) issues no venue call and leaves the record
\* and the book unchanged.
UnknownBalanceWithExitIsNoOp ==
    \A in \in Inputs :
       (ExitIds(qm) # {} /\ Unknown(in))
          => \A r \in StepResults(in) : NoEffect(r)

AllSucceeded(r) == \A k \in Range(r.calls) : k.ok

\* C4: idempotence.  When process_market_cycle is called twice in a row with
\* the same inputs at the same clock reading and every venue call of the
\* first call succeeds, the second call issues no cancel and no place call,
\* inputs with both YES and NO at or above the dust threshold included.
SecondCallIssuesNothing ==
    \A in \in Inputs : \A r1 \in StepResults(in) :
       (AllSucceeded(r1) /\ r1.now = now /\ r1.budget >= FailedReads(in)) =>
          \A r2 \in process_market_cycle(r1.qm, r1.venue, in.yes_bal,
                        in.no_bal, in.mid, now, r1.budget - FailedReads(in)) :
             r2.calls = <<>>

\* C5: asymmetry.  From the first cycle that is handed a YES balance at or
\* above INVENTORY_MIN_SHARES and for as long as that holding stays, no cycle
\* places a bid, cycles with an unknown balance included; symmetrically no
\* cycle places an ask while an observed NO holding stays.
NoBuyWhileInventoryPersists ==
    \A in \in Inputs : \A r \in StepResults(in) :
       /\ (held.yes >= INVENTORY_MIN_SHARES
             /\ (observed.yes \/ has_shares(in.yes_bal)))
          => Places(r, "bid") = {}
       /\ (held.no >= INVENTORY_MIN_SHARES
             /\ (observed.no \/ has_shares(in.no_bal)))
          => Places(r, "ask") = {}

\* the recorded order of a quote side, before the call
QuoteId(kind) == IF kind = "bid" THEN qm.bid_order_id ELSE qm.ask_order_id

\* the i-th call of r places an order on a side whose recorded order no
\* earlier call of r cancelled successfully
PlacedOverRecorded(r, i, kind) ==
    /\ r.calls[i].op = "place" /\ r.calls[i].site = kind
    /\ Truthy(QuoteId(kind))
    /\ ~\E j \in 1..(i - 1) :
           /\ r.calls[j].op = "cancel" /\ r.calls[j].ok
           /\ QuoteId(kind) \in r.calls[j].ids

\* the orders of a kind a cycle leaves resting that the record held before
\* the cycle or that the cycle placed and was given an id for
FoundOrPlaced(r, kind) ==
    {o \in Resting(r.venue, kind) :
        \/ o.id = QuoteId(kind)
        \/ \E k \in Places(r, kind) : o.id \in k.ids}

\* C6: cancel-before-place.  Within one cycle a bid (ask) is submitted over a
\* recorded bid (ask) only after a cancel naming that order returned; after a
\* failed refresh cancel no order is placed on a side that still records one;
\* and no cycle leaves the bid (ask) it found recorded resting together with
\* a bid (ask) it placed.
CancelBeforePlace ==
    \A in \in Handed : \A r \in StepResults(in) :
       \A kind \in {"bid", "ask"} :
          /\ \A i \in 1..Len(r.calls) : ~PlacedOverRecorded(r, i, kind)
          /\ (\E k \in Cancels(r) : k.site = "refresh" /\ ~k.ok)
                /\ Truthy(QuoteId(kind)) /\ Truthy(r.qm[kind \o "_order_id"])
             => Places(r, kind) = {}
          /\ Cardinality(FoundOrPlaced(r, kind)) <= 1

\* C6 witness: a cycle refreshes a recorded bid (the cancel returns, then the
\* new bid is placed), and the same cycle with the cancel failing places none.
RefreshCancelThenPlace ==
    /\ Truthy(qm.bid_order_id)
    /\ \E in \in Inputs :
          /\ \E r \in StepResults(in) :
                \E i, j \in 1..Len(r.calls) :
                   /\ i < j
                   /\ r.calls[i].op = "cancel" /\ r.calls[i].site = "refresh"
                   /\ r.calls[i].ok /\ qm.bid_order_id \in r.calls[i].ids
                   /\ r.calls[j].op = "place" /\ r.calls[j].site = "bid"
                   /\ r.calls[j].ok
          /\ \E r \in StepResults(in) :
                /\ \E k \in Cancels(r) : k.site = "refresh" /\ ~k.ok
                /\ AllPlaces(r) = {}

KindOf(field) ==
    CASE field = "bid_order_id" -> "bid" [] field = "ask_order_id" -> "ask"
      [] field = "yes_exit_order_id" -> "yes_exit"
      [] field = "no_exit_order_id" -> "no_exit"

\* C7: failure semantics.  A failed cancel never clears an order id and a
\* failed place never sets one, at every call site, the cancel of stale exit
\* orders included: an id the call cleared was named by a cancel that
\* returned, and an id the call set was returned by a place.
FailedCallKeepsIds ==
    \A in \in Inputs : \A r \in StepResults(in) : \A f \in IdFields :
       /\ (qm[f] # None /\ r.qm[f] = None)
          => \E k \in Cancels(r) : k.ok /\ qm[f] \in k.ids
       /\ (qm[f] = None /\ r.qm[f] # None)
          => \E k \in Places(r, KindOf(f)) : k.ok /\ r.qm[f] \in k.ids

\* C8: in any cycle where yes_bal or no_bal is unknown, whether or not an exit
\* order is recorded, inventory_since, entry_mid and exit_cooldown_until are
\* left as they were.
UnknownBalanceKeepsInventoryClock ==
    \A in \in Inputs :
       Unknown(in) =>
          \A r \in StepResults(in) :
             /\ r.qm.inventory_since = qm.inventory_since
             /\ r.qm.entry_mid = qm.entry_mid
             /\ r.qm.exit_cooldown_until = qm.exit_cooldown_until

\* C9: a call with the midpoint unknown issues no venue call and leaves every
\* field of the record (and the book) unchanged, whatever the balances are.
UnknownMidIsNoOp ==
    \A in \in Handed :
       in.mid = None => \A r \in StepResults(in) : NoEffect(r)

\* C9 witness: the midpoint is unknown in a state where a known quotable
\* midpoint would have made the cycle act (a position is held that no cycle
\* has tracked yet, with the bid still recorded), and the call returns.
UnknownMidWhileWorkPending ==
    /\ qm.inventory_since = None /\ Truthy(qm.bid_order_id)
    /\ \E in \in Inputs :
          /\ in.mid = None
          /\ has_shares(in.yes_bal)
          /\ \E r \in StepResults(in) : NoEffect(r)
          /\ \E r \in StepResults([in EXCEPT !.mid = 4000]) : r.calls # <<>>

\* the call parks: midpoint known and below MIN_QUOTABLE_MID, and not
\* short-circuited by the unknown-balance rule
Parks(in) ==
    /\ ~balance_guard(qm, in.yes_bal, in.no_bal)
    /\ in.mid # None /\ in.mid < MIN_QUOTABLE_MID

\* C10: parking.  A parking cycle places no order and issues one cancel naming
\* every recorded bid, ask, YES-exit and NO-exit id (none when nothing is
\* recorded); when the cancel returns the four ids are cleared, when it fails
\* the record is as it was; and no cycle with a known midpoint below
\* MIN_QUOTABLE_MID places an order.
ParkingCancelsEverything ==
    \A in \in Handed :
       (in.mid # None /\ in.mid < MIN_QUOTABLE_MID) =>
          \A r \in StepResults(in) :
             /\ AllPlaces(r) = {}
             /\ Parks(in) =>
                  IF AllIds(qm) = {}
                  THEN NoEffect(r)
                  ELSE /\ Len(r.calls) = 1
                       /\ r.calls[1].op = "cancel"
                       /\ r.calls[1].ids = AllIds(qm)
                       /\ IF r.calls[1].ok
                          THEN /\ AllIds(r.qm) = {}
                               /\ \A o \in r.venue : o.id \notin AllIds(qm)
                          ELSE r.qm = qm /\ r.venue = venue

\* C10 witness: a parking cycle whose cancel names a quote and an exit order
\* and returns, leaving no id recorded.
ParkedWithQuoteAndExit ==
    /\ QuoteIds(qm) # {} /\ ExitIds(qm) # {}
    /\ \E in \in Inputs :
          /\ Parks(in)
          /\ \E r \in StepResults(in) :
                /\ Len(r.calls) = 1 /\ r.calls[1].ok
                /\ r.calls[1].ids = AllIds(qm)
                /\ AllIds(r.qm) = {}

----------------------------------------------------------------------------
(* Shutdown and the cancel operations *)

\* every venue call of the sequence returned
AllOk(calls) == \A k \in 1..Len(calls) : calls[k].ok

\* C11 -- Shutdown sweep: at whatever point of the poll loop the interrupt
\* arrives, between two polls or inside a market's cycle as a venue call
\* comes back, when the cancels cancel_all_quoted issues succeed no order of
\* the bot is left resting on the venue.
ShutdownSweepLeavesNothingResting ==
    pc = "poll" =>
       \A p \in SignalPoints : \A r \in Swept(p) :
          AllOk(r.calls) => r.venue = {}

\* the bulk cancels of the sequence issued at site: each one that failed is
\* followed at once by cancel_all, and cancel_all follows nothing else
FallsBack(calls, site) ==
    /\ \A k \in 1..Len(calls) :
          (calls[k].op = "cancel" /\ calls[k].site = site /\ ~calls[k].ok)
          => (k < Len(calls) /\ calls[k + 1].op = "cancel_all")
    /\ \A k \in 1..Len(calls) :
          calls[k].op = "cancel_all"
          => (/\ k > 1
              /\ calls[k - 1].op = "cancel"
              /\ calls[k - 1].site \in {"park", "shutdown"}
              /\ ~calls[k - 1].ok)

\* C12 -- Cancel fallback: a bulk cancel that fails in cancel_quoted or in
\* cancel_all_quoted is followed by a call of cancel_all, and cancel_all is
\* called neither after a bulk cancel that succeeded nor when there was no
\* id to cancel.
FailedBulkCancelFallsBackToCancelAll ==
    pc = "poll" =>
       /\ \A in \in Inputs : \A r \in StepResults(in) :
             FallsBack(r.calls, "park")
       /\ \A r \in Swept([qm |-> qm, venue |-> venue,
                          budget |-> MaxFaults - faults]) :
             FallsBack(r.calls, "shutdown")

----------------------------------------------------------------------------
(* Exit management *)

ExitKinds == {"yes_exit", "no_exit"}

\* the QuotedMarket field that records the exit of a kind
ExitId(kind) == IF kind = "yes_exit" THEN "yes_exit_order_id"
                ELSE "no_exit_order_id"

\* inventory is observed by the cycle that reads in
SeesInventory(in) == has_shares(in.yes_bal) \/ has_shares(in.no_bal)

\* the call touched no exit: it submitted none and cancelled none to re-price
LeavesExitsAlone(r) ==
    \A k \in 1..Len(r.calls) :
       /\ ~(r.calls[k].op = "place" /\ r.calls[k].site \in ExitKinds)
       /\ ~(r.calls[k].op = "cancel" /\ r.calls[k].site = "exit_refresh")

\* the k-th call of r is a placement the venue refused for balance/allowance
BalanceError(r, k) == r.calls[k].op = "place" /\ r.calls[k].err = "balance"

\* C15 -- Benign-race cooldown: an exit placement that fails with a balance /
\* allowance error at time T (the time the call comes back) leaves the exit
\* id of that side unset and sets exit_cooldown_until to T + 5 s (the T of
\* the last such failure of the cycle); a cycle that is over before the
\* cooldown ends and observes inventory places no exit, cancels no exit for
\* re-pricing and keeps the cooldown as it is.
BalanceErrorStartsCooldown ==
    \A in \in Handed : \A r \in StepResults(in) :
       /\ \A k \in 1..Len(r.calls) :
             BalanceError(r, k)
             => /\ r.calls[k].site \in ExitKinds
                /\ r.qm[ExitId(r.calls[k].site)] = None
                /\ \E j \in k..Len(r.calls) :
                      /\ BalanceError(r, j)
                      /\ r.qm.exit_cooldown_until =
                            r.calls[j].at + EXIT_COOLDOWN_SECONDS
       /\ (r.now < qm.exit_cooldown_until /\ SeesInventory(in))
          => /\ LeavesExitsAlone(r)
             /\ r.path = "full"
                => r.qm.exit_cooldown_until = qm.exit_cooldown_until

\* C15 witness: a placement has failed with the balance error, the position
\* is still held without an exit, and a poll that observes it runs inside the
\* cooldown
PollInsideCooldown ==
    /\ pc = "poll"
    /\ now < qm.exit_cooldown_until
    /\ qm.exit_cooldown_until = now + EXIT_COOLDOWN_SECONDS
    /\ held.yes >= INVENTORY_MIN_SHARES
    /\ qm.yes_exit_order_id = None
    /\ \E in \in Inputs :
          /\ has_shares(in.yes_bal)
          /\ in.mid # None /\ in.mid >= MIN_QUOTABLE_MID
          /\ \E r \in StepResults(in) :
                /\ r.path = "full"
                /\ r.now < qm.exit_cooldown_until
                /\ LeavesExitsAlone(r)

\* the balance the cycle was handed for the side of an exit kind
BalanceOf(in, kind) == IF kind = "yes_exit" THEN in.yes_bal ELSE in.no_bal

\* the target price of the exit of a kind as the call that returned r
\* computed it when none of its venue calls took time (the prices the
\* computation can give)
TargetOf(r, kind, mid) ==
    IF kind = "yes_exit"
    THEN compute_exit_price(Market, mid, r.qm.inventory_since, r.qm.entry_mid,
                            r.qm.entry_bid_price, "YES", now)
    ELSE compute_exit_price(Market, mid, r.qm.inventory_since, r.qm.entry_mid,
                            r.qm.entry_ask_price, "NO", now)

\* the call issued a cancel of order id to re-price it
RefreshCancelOf(r, id) ==
    \E k \in 1..Len(r.calls) :
       /\ r.calls[k].op = "cancel"
       /\ r.calls[k].site = "exit_refresh"
       /\ id \in r.calls[k].ids

\* C20 -- Per-side exit refresh: in a cycle that reaches exit management,
\* for each side holding inventory whose exit order rests, a cancel of that
\* order for re-pricing is issued if and only if the target price of that
\* side differs by at least one tick from the price at which that order
\* rests (prices exactly one tick apart are left to the float comparison).
ExitRefreshedIffOwnPriceMoved ==
    \A in \in Inputs : \A r \in StepResults(in) :
       (r.path = "full" /\ r.now = now /\ now >= qm.exit_cooldown_until)
       => \A kind \in ExitKinds : \A o \in venue :
             (/\ o.kind = kind
              /\ o.id = qm[ExitId(kind)]
              /\ has_shares(BalanceOf(in, kind)))
             => \A target \in TargetOf(r, kind, in.mid) :
                   LET moved == Abs(target - o.price)
                   IN /\ moved > Market.tick_size => RefreshCancelOf(r, o.id)
                      /\ moved < Market.tick_size => ~RefreshCancelOf(r, o.id)

----------------------------------------------------------------------------
(* Pricing engine *)

\* C16 -- compute_quotes: for every midpoint and tick size of the grid the
\* pair it returns has bid < ask, both prices within [0.001, 0.999] and both
\* exact multiples of the tick size.
QuotesOrderedBoundedOnTick ==
    (calc.fn = "compute_quotes" /\ calc.done)
    => /\ calc.bid < calc.ask
       /\ 10 <= calc.bid /\ calc.ask <= 9990
       /\ calc.bid % calc.market.tick_size = 0
       /\ calc.ask % calc.market.tick_size = 0

\* the adverse move of the midpoint, as a loss of the position on side
Loss(c) == IF c.side = "YES" THEN c.entry_mid - c.mid ELSE c.mid - c.entry_mid

\* tick-round(price), clamped to [0.01, 0.99]: the prices the program can
\* come to for the price whole + num/den
RoundedClamped(whole, num, den, tick) ==
    {_clamp(p, 100, 9900) : p \in _round_to_tick(whole, num, den, tick)}

\* the tick-rounded, clamped midpoint in the token of the position
SnapPrice(c) ==
    RoundedClamped(IF c.side = "YES" THEN c.mid ELSE 10000 - c.mid,
                   0, 1, c.market.tick_size)

\* C17 -- Stop-loss: whatever the elapsed time, inventory_since and the
\* entry price, when entry_mid > 0 and the midpoint has moved against the
\* position by STOP_LOSS_PCT of entry_mid or more, compute_exit_price
\* returns the tick-rounded, clamped midpoint (1 - midpoint for NO).
StopLossSnapsToMid ==
    (/\ calc.fn = "compute_exit_price" /\ calc.done
     /\ calc.entry_mid > 0
     /\ Loss(calc) * 1000 >= STOP_LOSS_PCT * calc.entry_mid)
    => calc.price \in SnapPrice(calc)

\* the stop-loss does not trigger: no entry midpoint, or a loss below
\* STOP_LOSS_PCT of it
NoStop(c) == c.entry_mid <= 0 \/ Loss(c) * 1000 < STOP_LOSS_PCT * c.entry_mid

\* what the position cost: p for YES, 1 - p for NO
Cost(c) == IF c.side = "YES" THEN c.entry_price ELSE 10000 - c.entry_price

ElapsedOf(c) == c.t_now - c.inventory_since

\* the prices compute_exit_price returns on the arguments of c once e
\* seconds have elapsed
PriceAfter(c, e) ==
    compute_exit_price(c.market, c.mid, c.inventory_since, c.entry_mid,
                       c.entry_price, c.side, c.inventory_since + e)

\* the price does not go up as more time elapses
NeverIncreases(c) ==
    \A e \in Elapsed :
       e >= ElapsedOf(c) => \A later \in PriceAfter(c, e) : later <= c.price

\* C18 -- Escalation endpoints: absent a stop-loss trigger, at elapsed = 0
\* compute_exit_price returns tick-round(cost + half_spread) clamped to
\* [0.01, 0.99], for every elapsed >= EXIT_ESCALATION_SECONDS it returns
\* tick-round(cost), the exact breakeven, and the price never increases as
\* elapsed grows (cost is p for YES, 1 - p for NO).
EscalationEndsAtBreakeven ==
    (calc.fn = "compute_exit_price" /\ calc.done /\ NoStop(calc))
    => /\ ElapsedOf(calc) = 0
          => calc.price \in
                RoundedClamped(Cost(calc),
                               calc.market.max_incentive_spread * SPREAD_PCT,
                               1000, calc.market.tick_size)
       /\ ElapsedOf(calc) >= EXIT_ESCALATION_SECONDS
          => calc.price \in _round_to_tick(Cost(calc), 0, 1,
                                           calc.market.tick_size)
       /\ NeverIncreases(calc)

\* C18, as the code has it: the breakeven price is clamped to [0.01, 0.99]
\* like every other exit price.
EscalationEndsAtClampedBreakeven ==
    (calc.fn = "compute_exit_price" /\ calc.done /\ NoStop(calc))
    => /\ ElapsedOf(calc) = 0
          => calc.price \in
                RoundedClamped(Cost(calc),
                               calc.market.max_incentive_spread * SPREAD_PCT,
                               1000, calc.market.tick_size)
       /\ ElapsedOf(calc) >= EXIT_ESCALATION_SECONDS
          => calc.price \in
                RoundedClamped(Cost(calc), 0, 1, calc.market.tick_size)
       /\ NeverIncreases(calc)

\* C18 witness: a NO position bought at the ask 0.999 compute_quotes clamps
\* to, priced after the escalation has run out: its tick-rounded cost lies
\* below 0.01 and the price returned is 0.01
BreakevenBelowRange ==
    /\ calc.fn = "compute_exit_price" /\ calc.done /\ NoStop(calc)
    /\ calc.side = "NO" /\ calc.entry_price = 9990
    /\ ElapsedOf(calc) >= EXIT_ESCALATION_SECONDS
    /\ \A p \in _round_to_tick(Cost(calc), 0, 1, calc.market.tick_size) :
          p < 100
    /\ calc.price = 100

----------------------------------------------------------------------------
(* main() *)

\* the first n markets of the list were processed in this poll, in order,
\* each on its own triple of market_data
ProcessedInOrder(n) ==
    /\ Len(log) = n
    /\ \A j \in 1..n : log[j].market = j /\ log[j].data = market_data[j]

\* the last thing the log has kept
LastLogged == log[Len(log)]

\* C13 -- Exception isolation: when process_market_cycle raises for a market,
\* the for loop moves on to the next market, or after the last one to the
\* sleep before the next poll; every poll processes the markets in list
\* order, each on its own fetched data, and a poll that is over has
\* processed them all; once in its loop, main() leaves it only through the
\* SIGINT handler, the cutoff, or the failing cutoff check of a configuration
\* without SHUTDOWN_TIME, never on what the processing of a market raises.
RaisingMarketDoesNotStopThePoll ==
    /\ [](pc = "process"
            => loop_i <= Len(quoted_markets) /\ ProcessedInOrder(loop_i - 1))
    /\ []((pc = "sleep" /\ market_data # <<>>)
            => ProcessedInOrder(Len(quoted_markets)))
    /\ [][(Len(log') > Len(log) /\ LastLogged'.what = "raised")
            => /\ loop_i' = loop_i + 1
               /\ pc' = IF loop_i = Len(quoted_markets)
                        THEN "sleep" ELSE "process"]_vars
    /\ [][(pc \in {"sleep", "process"} /\ pc' \notin {"sleep", "process"})
            => \/ /\ pc' = "exit"
                  /\ log' # <<>>
                  /\ LastLogged'.what \in {"cutoff", "sigint"}
               \/ pc = "sleep" /\ pc' = "crashed"
                               /\ env.SHUTDOWN_TIME = None]_vars

\* C13 witness: a poll over two markets on different data is over; the call
\* for the first market raised (its midpoint read NaN while one of its
\* quotes was to be placed), and the second was processed after it on its
\* own triple
SecondMarketProcessedAfterRaise ==
    /\ pc = "sleep"
    /\ Len(quoted_markets) = 2
    /\ Len(log) = 2
    /\ log[1].what = "raised" /\ log[1].data.mid = NaN
    /\ log[2].what = "returned" /\ log[2].market = 2
    /\ market_data[1] # market_data[2]
    /\ log[2].data = market_data[2]

\* C19 -- Fatal startup: when discovery returns no markets, or when no
\* initial bid or ask was placed on any market, main() exits with an error
\* and does not enter the poll loop.
NoQuotePlacedIsFatal ==
    /\ (pc # "discover" /\ markets = <<>>) => pc = "exit1"
    /\ (pc = "sleep" /\ market_data = <<>>)
       => \E j \in 1..Len(quoted_markets) : QuoteIds(quoted_markets[j]) # {}

\* the read of a work item produced no value: the balance call raised, or
\* get_midpoint found no positive midpoint to return
ReadFailed(f) == f.resp.raises \/ (f.key = "mid" /\ f.resp.value <= 0)

\* what the field of a work item has to carry after the fetch
FieldOwed(f) ==
    IF ReadFailed(f) THEN None
    ELSE IF f.key = "mid" THEN f.resp.value ELSE f.resp.value \div 10000

FieldOf(triple, key) ==
    IF key = "yes_bal" THEN triple[1] ELSE IF key = "no_bal" THEN triple[2] ELSE triple[3]

\* C14: whatever the scheduling of the 3N reads over the workers and whichever
\* reads fail, fetch_market_data returns only when all 3N reads have finished,
\* returns N triples with the i-th one made of the reads of the i-th market,
\* and each field is unknown exactly when its own read failed and carries the
\* value of its own read otherwise
FetchReturnsEveryReadInItsPlace ==
    pc = "returned" =>
        /\ Len(futures) = 3 * Len(results)
        /\ \A k \in 1..Len(futures) : futures[k].state = "done"
        /\ Len(fetched) = Len(results)
        /\ \A k \in 1..Len(futures) :
              /\ futures[k].idx = ((k - 1) \div 3) + 1
              /\ FieldOf(fetched[futures[k].idx], futures[k].key) = FieldOwed(futures[k])
              /\ (FieldOf(fetched[futures[k].idx], futures[k].key) = None) <=> ReadFailed(futures[k])

\* C14 happens: two markets, the YES balance of the first and the midpoint of
\* the second failed, the four other fields carry what their reads returned
PartialFetchReturned ==
    /\ pc = "returned"
    /\ Len(fetched) = 2
    /\ futures[1].resp.raises
    /\ futures[6].resp.raises
    /\ fetched[1] = <<None, 200, 4100>>
    /\ fetched[2] = <<400, 500, None>>

SeesPosition(in) == has_shares(in.yes_bal) \/ has_shares(in.no_bal)

\* the first full cycle that observes inventory stamps (now, midpoint), and
\* no other cycle stamps
StampedOnDetection(in, r) ==
    IF ~EarlyReturn(in) /\ SeesPosition(in) /\ qm.inventory_since = None
    THEN r.qm.inventory_since = now /\ r.qm.entry_mid = in.mid
    ELSE r.qm.inventory_since \in {qm.inventory_since, None}

\* a full cycle that observes no inventory resets the clock, the entry
\* midpoint and the cooldown, names the recorded exits in a cancel and clears
\* both exit ids
ResetOnClearing(in, r) ==
    (~EarlyReturn(in) /\ ~SeesPosition(in)) =>
        /\ r.qm.inventory_since = None
        /\ r.qm.entry_mid = 0
        /\ r.qm.exit_cooldown_until = 0
        /\ r.qm.yes_exit_order_id = None /\ r.qm.no_exit_order_id = None
        /\ ExitIds(qm) # {} =>
              \E k \in Cancels(r) : k.site = "stale_exits" /\ k.ids = ExitIds(qm)

KeepsClock(r) ==
    r.qm.inventory_since = qm.inventory_since /\ r.qm.entry_mid = qm.entry_mid

\* C21: inventory_since and entry_mid are stamped (now, midpoint) exactly in
\* the first full cycle that observes inventory while inventory_since is
\* null; no later cycle modifies them while a side stays at or above the dust
\* threshold; a full cycle that observes no inventory resets inventory_since,
\* entry_mid and exit_cooldown_until, cancels the recorded exits and clears
\* both exit ids.
InventoryClockFollowsThePosition ==
    \A in \in Inputs : \A r \in StepResults(in) :
       /\ StampedOnDetection(in, r)
       /\ (qm.inventory_since # None
             /\ (held.yes >= INVENTORY_MIN_SHARES \/ held.no >= INVENTORY_MIN_SHARES))
          => KeepsClock(r)
       /\ ResetOnClearing(in, r)

\* a quote side is wanted in a cycle when its token is not observed held
Wanted(in, kind) ==
    IF kind = "bid" THEN ~has_shares(in.yes_bal) ELSE ~has_shares(in.no_bal)

\* |mid - mid_at_placement| / mid_at_placement exceeds REFRESH_THRESHOLD_PCT
Drifted(in) ==
    Abs(in.mid - qm.mid_at_placement) * 1000 > REFRESH_THRESHOLD_PCT * qm.mid_at_placement

\* the prices a quote of a kind can be submitted at for a midpoint
QuotePrice(kind, mid) ==
    IF kind = "bid" THEN {q.bid : q \in compute_quotes(Market, mid)}
    ELSE UNION {_round_to_tick(10000 - q.ask, 0, 1, Market.tick_size)
                : q \in compute_quotes(Market, mid)}

\* the call cancels the recorded order of the side and places a new one
Replaced(r, kind) ==
    /\ \E k \in Cancels(r) : QuoteId(kind) \in k.ids
    /\ Places(r, kind) # {}

\* the refresh cancel: one call, naming the recorded bid and ask, before any
\* placement
OneCancelFirst(in, r) ==
    /\ Len(r.calls) >= 1
    /\ \A i \in 1..Len(r.calls) :
          r.calls[i].op = "cancel" /\ r.calls[i].site = "refresh"
             => /\ r.calls[i].ids = {QuoteId(kind) : kind \in {k \in {"bid", "ask"} : Wanted(in, k)}}
                                       \ {None}
                /\ \A j \in 1..Len(r.calls) :
                      r.calls[j].op = "place" /\ r.calls[j].site \in {"bid", "ask"} => i < j
    /\ Cardinality({i \in 1..Len(r.calls) : r.calls[i].site = "refresh"}) = 1

\* C22: in a full cycle a wanted side that has a resting order is cancelled
\* and re-placed if and only if |mid - mid_at_placement| / mid_at_placement
\* exceeds REFRESH_THRESHOLD_PCT; the refresh cancels the recorded bid and ask
\* in one call before either is re-placed, and after a successful refresh both
\* wanted sides rest at prices computed from the current midpoint and
\* mid_at_placement equals that midpoint.
RefreshedIffDrifted ==
    \A in \in Inputs :
       ~EarlyReturn(in) => \A r \in StepResults(in) :
          AllSucceeded(r) =>
             \A kind \in {"bid", "ask"} :
                (Wanted(in, kind) /\ QuoteId(kind) # None) =>
                   /\ Replaced(r, kind) <=> Drifted(in)
                   /\ Drifted(in) =>
                         /\ OneCancelFirst(in, r)
                         /\ r.qm.mid_at_placement = in.mid
                         /\ \A k2 \in {"bid", "ask"} :
                               Wanted(in, k2) =>
                                  \E o \in r.venue :
                                     /\ o.kind = k2
                                     /\ o.id = r.qm[k2 \o "_order_id"]
                                     /\ o.price \in QuotePrice(k2, in.mid)

\* the sides of a position and what belongs to each
Sides == {"yes", "no"}
ExitKindOf(side) == IF side = "yes" THEN "yes_exit" ELSE "no_exit"
BalOf(in, side) == IF side = "yes" THEN in.yes_bal ELSE in.no_bal

\* the price the side was bought at, in its own token
Breakeven(q, side) ==
    IF side = "yes" THEN q.entry_bid_price ELSE 10000 - q.entry_ask_price

\* the stop-loss price of the side: the tick-rounded clamped midpoint
StopPrice(side, mid) ==
    RoundedClamped(IF side = "yes" THEN mid ELSE 10000 - mid, 0, 1,
                   Market.tick_size)

\* the exit of the side recorded in q rests in book at one of prices
ExitRestsAt(q, book, side, prices) ==
    \E o \in book :
       /\ o.kind = ExitKindOf(side)
       /\ o.id = q[ExitKindOf(side) \o "_order_id"]
       /\ o.price \in prices

\* C23: when a side's inventory is observed in every cycle with balances and
\* midpoint known, the midpoint quotable and the venue calls succeeding, then
\* from EXIT_ESCALATION_SECONDS after the detection on the exit of the side
\* rests, after every cycle, at the side's breakeven entry price or at the
\* stop-loss midpoint: it is not left resting above breakeven.
EscalationReachesBreakeven ==
    \A in \in Inputs :
       (~EarlyReturn(in) /\ ~Unknown(in)) => \A r \in StepResults(in) :
          AllSucceeded(r) =>
             \A side \in Sides :
                (/\ has_shares(BalOf(in, side))
                 /\ observed[side]
                 /\ qm.inventory_since # None
                 /\ now - qm.inventory_since >= EXIT_ESCALATION_SECONDS)
                   => ExitRestsAt(r.qm, r.venue, side,
                                  {Breakeven(qm, side)}
                                     \cup StopPrice(side, in.mid))

\* the kinds of order and the record field each is kept in
IdOf(q, kind) == q[kind \o "_order_id"]

\* the side is wanted in the cycle that reads in: a quote when its token is
\* not observed held, an exit when it is
WantedIn(in, kind) ==
    CASE kind = "bid" -> ~has_shares(in.yes_bal)
      [] kind = "ask" -> ~has_shares(in.no_bal)
      [] kind = "yes_exit" -> has_shares(in.yes_bal)
      [] kind = "no_exit" -> has_shares(in.no_bal)

\* the side is wanted as things stand on the venue
WantedNow(kind) ==
    CASE kind = "bid" -> held.yes < INVENTORY_MIN_SHARES
      [] kind = "ask" -> held.no < INVENTORY_MIN_SHARES
      [] kind = "yes_exit" -> held.yes >= INVENTORY_MIN_SHARES
      [] kind = "no_exit" -> held.no >= INVENTORY_MIN_SHARES

\* the last placement of the kind in the call failed, and not for balance
PlacementFailed(r, kind) ==
    \E i \in 1..Len(r.calls) :
       /\ r.calls[i].op = "place" /\ r.calls[i].site = kind
       /\ ~r.calls[i].ok /\ r.calls[i].err # "balance"
       /\ \A j \in (i + 1)..Len(r.calls) :
             ~(r.calls[j].op = "place" /\ r.calls[j].site = kind)

\* a failed placement leaves the slot empty (no order id in it), and a full
\* cycle that wants a side whose slot is empty (an exit: outside the
\* cooldown) submits it
RetriedNextCycle ==
    \A in \in Inputs : \A r \in StepResults(in) : \A kind \in Kinds :
       /\ PlacementFailed(r, kind) => ~Truthy(IdOf(r.qm, kind))
       /\ (/\ ~EarlyReturn(in)
           /\ WantedIn(in, kind)
           /\ ~Truthy(IdOf(qm, kind))
           /\ kind \in ExitKinds => now >= qm.exit_cooldown_until)
             => Places(r, kind) # {}

\* the recorded order of the kind rests on the venue
Rests(kind) == \E o \in venue : o.kind = kind /\ o.id = IdOf(qm, kind)

\* C24: a failed placement of a wanted quote or exit (the balance/allowance
\* race aside) leaves the slot empty and the next full cycle that still wants
\* the side submits it again; as reads come to succeed and the venue comes to
\* accept, every wanted side whose slot is empty comes to have a resting
\* order, unless it stops being wanted, a balance/allowance cooldown starts
\* or main() leaves its loop first.
EveryWantedSideComesToRest ==
    /\ []RetriedNextCycle
    /\ \A kind \in Kinds :
          (pc = "poll" /\ WantedNow(kind) /\ ~Truthy(IdOf(qm, kind))
              /\ now >= qm.exit_cooldown_until)
          ~> (Rests(kind) \/ ~WantedNow(kind) \/ pc # "poll"
                 \/ now < qm.exit_cooldown_until)

\* C25 helper: cancel_all_quoted has gone over market j, none of its four
\* ids is recorded any more
IdsCleared(j) ==
    /\ quoted_markets[j].bid_order_id = None
    /\ quoted_markets[j].ask_order_id = None
    /\ quoted_markets[j].yes_exit_order_id = None
    /\ quoted_markets[j].no_exit_order_id = None

\* C25 -- Scheduled cutoff: a turn of the loop that finds the time at or past
\* the configured shutdown time fetches and processes nothing: from the
\* sleep, with the clock past the cutoff, main() only leaves the loop, on a
\* cancel_all_quoted that clears all four ids of every tracked market
\* whatever the venue answers to the cancels and that places nothing; once
\* main() has left, nothing happens any more.
CutoffSweepsAndStops ==
    /\ [][(pc = "sleep" /\ past_shutdown_time /\ now' = now)
            => /\ pc' = "exit"
               /\ \A j \in DOMAIN quoted_markets' : IdsCleared(j)'
               /\ market_data' = market_data
               /\ markets' = markets
               /\ Len(quoted_markets') = Len(quoted_markets)
               /\ Len(log') = Len(log) + 1
               /\ log' = Append(log, LastLogged')
               /\ LastLogged'.what \in {"cutoff", "sigint"}
               /\ \A k \in 1..Len(LastLogged'.calls) :
                     LastLogged'.calls[k].op \in {"cancel", "cancel_all"}
               /\ \A j \in DOMAIN books' :
                     Cardinality(books'[j]) <= Cardinality(books[j])
           ]_vars
    /\ [](pc = "exit" => \A j \in DOMAIN quoted_markets : IdsCleared(j))
    /\ [][pc # "exit"]_vars

\* C25 witness: the turn of the loop that found the time past the configured
\* cutoff ran cancel_all_quoted and left the loop; the bulk cancel raised and
\* cancel_all raised, an order that was recorded still rests on the venue,
\* and yet no id is recorded on any market
CutoffClearedIdsThoughCancelFailed ==
    /\ pc = "exit"
    /\ past_shutdown_time
    /\ LastLogged.what = "cutoff"
    /\ LastLogged.calls = <<BulkCancel(FALSE), CancelAll(FALSE)>>
    /\ \E j \in DOMAIN books : books[j] # {}
    /\ \A j \in DOMAIN quoted_markets : IdsCleared(j)

\* a midpoint the feed can show from which a quote of the kind gets the price,
\* and which lies within REFRESH_THRESHOLD_PCT of mid (measured on either)
PricedNear(kind, price, mid) ==
    \E m0 \in env.mids \cup env.open :
       /\ price \in QuotePrice(kind, m0)
       /\ \/ Abs(mid - m0) * 1000 <= REFRESH_THRESHOLD_PCT * m0
          \/ Abs(mid - m0) * 1000 <= REFRESH_THRESHOLD_PCT * mid

\* C26: after a full cycle whose venue calls all succeed, the recorded bid and
\* the recorded ask that rest on the venue were each priced from a midpoint
\* within REFRESH_THRESHOLD_PCT of the cycle's midpoint, also when the two were
\* placed in different cycles and share one mid_at_placement.
RestingQuotesPricedNearMid ==
    \A in \in Inputs :
       (~EarlyReturn(in) /\ in.mid >= MIN_QUOTABLE_MID) =>
          \A r \in StepResults(in) :
             AllSucceeded(r) =>
                \A kind \in {"bid", "ask"} : \A o \in r.venue :
                   (o.kind = kind /\ o.id = r.qm[kind \o "_order_id"])
                      => PricedNear(kind, o.price, in.mid)

\* C27: after a full cycle with both balances known, a quotable midpoint and
\* every venue call succeeding, a side whose observed balance is below
\* INVENTORY_MIN_SHARES has no exit id recorded, also when the other side is
\* still held.
NoExitIdForEmptySide ==
    \A in \in Inputs :
       (~EarlyReturn(in) /\ in.mid >= MIN_QUOTABLE_MID) =>
          \A r \in StepResults(in) :
             AllSucceeded(r) =>
                \A side \in Sides :
                   ~has_shares(BalOf(in, side))
                      => r.qm[ExitKindOf(side) \o "_order_id"] = None

\* C28: after a cycle with both balances and the midpoint known, every venue
\* call succeeding, outside the exit cooldown, each side whose balance is at
\* least INVENTORY_MIN_SHARES has an exit sell resting on the venue, also when
\* the midpoint is below MIN_QUOTABLE_MID or the stop-loss is triggered.
HeldSideHasRestingExit ==
    \A in \in Inputs :
       (~Unknown(in) /\ in.mid # None /\ now >= qm.exit_cooldown_until) =>
          \A r \in StepResults(in) :
             AllSucceeded(r) =>
                \A side \in Sides :
                   has_shares(BalOf(in, side))
                      => \E o \in r.venue : o.kind = ExitKindOf(side)

\* the token name compute_exit_price takes for a side, and the entry price
\* recorded for it
TokenOf(side) == IF side = "yes" THEN "YES" ELSE "NO"
EntryOf(q, side) == IF side = "yes" THEN q.entry_bid_price ELSE q.entry_ask_price

\* C29: without a stop-loss, the exit placed in the cycle that first observes
\* the inventory of a side is priced at the side's entry cost plus the full
\* half-spread (the escalation at t = 0, the venue calls of the cycle taking
\* no time), also for the second side when the other side is already held.
FirstExitAtFullHalfSpread ==
    \A in \in Inputs :
       ~EarlyReturn(in) =>
          \A r \in StepResults(in) : \A side \in Sides :
             (/\ has_shares(BalOf(in, side))
              /\ ~observed[side]
              /\ r.now = now
              /\ stop_loss(r.qm.entry_mid, in.mid, TokenOf(side)) = {FALSE})
                => \A k \in Places(r, ExitKindOf(side)) :
                      k.price \in exit_price(Market, in.mid, now,
                                              EntryOf(qm, side), TokenOf(side),
                                              now, FALSE)

\* C30: once a cycle has observed the inventory of a side, and for as long as
\* the side is held, no cycle changes the entry price recorded for it
\* (entry_bid_price for YES, entry_ask_price for NO), whatever the balance
\* reads return and whatever happens to the other side.
EntryPriceFrozenWhileHeld ==
    \A in \in Inputs : \A r \in StepResults(in) : \A side \in Sides :
       (observed[side] /\ held[side] >= INVENTORY_MIN_SHARES)
          => EntryOf(r.qm, side) = EntryOf(qm, side)

\* no_price = _round_to_tick(1.0 - ask_price, market.tick_size): the prices
\* the ask leg can be submitted at, as a BUY of the NO token
no_price(ask_price, tick) == _round_to_tick(10000 - ask_price, 0, 1, tick)

\* C31 -- Every quote price submitted to the venue is tradable: for a midpoint
\* of at least MIN_QUOTABLE_MID and every tick size, the NO price of the ask
\* leg is at least one tick, below 1 and a multiple of the tick, and the bid
\* price is at least one tick and a multiple of the tick.
SubmittedQuotePricesTradable ==
    (calc.fn = "compute_quotes" /\ calc.done /\ calc.mid >= MIN_QUOTABLE_MID)
    => LET tick == calc.market.tick_size
       IN /\ \A np \in no_price(calc.ask, tick) :
                np >= tick /\ np < 10000 /\ np % tick = 0
          /\ calc.bid >= tick /\ calc.bid % tick = 0

====
